---- MODULE Spec2Model ----
(***************************************************************************)
(* Code-similarity pipeline of CourseDesignTasks:                          *)
(*   tokenizer -> structural parser -> linearizer -> sequence comparator.  *)
(* Each stage is translated from its C source; the comparator is the       *)
(* two-row Levenshtein of src/src/edit_distance.c.                         *)
(***************************************************************************)
EXTENDS Integers, Sequences, FiniteSets, TLC

VARIABLES
    pc,       \* where the run is: which stage, and whether its loop has ended
    toks,     \* Parser.toks: the token array handed to ast_parse_tokens
    pos,      \* Parser.pos (0-based index into toks)
    root,     \* the Program node ast_parse_tokens builds, NullNode if none; in
              \* a run of the linearizer alone, the tree handed to it
    heap,     \* allocator bookkeeping: n = allocations requested so far,
              \* live = tree nodes allocated and not yet freed
    failAt,   \* the allocation request that fails (0: memory never runs out)
    iters,    \* iterations of the top-level loop of ast_parse_tokens so far
    vec,      \* the StrVec objects: vec[k].data is the k-th flat sequence
    calls,    \* log of levenshtein_strvec / similarity_from_dist calls
    src,      \* src[f]: the text of file f, one character per element
    file,     \* the file process_code is working on (1 or 2)
    tokens,   \* tokens[f]: what tokenize_code returned for file f
    stops,    \* stops[f][k]: offset in src[f] just past token k
    success,  \* success[f]: the result of process_code for file f
    edit,     \* how the second file was derived from the first
    tkz,      \* the Tokenizer object a caller pulls tokens from
    lexlog,   \* log of the tokenizer_init and tokenizer_next_token calls on tkz
    ret       \* what an earlier call returned to the caller: the function
              \* called, the position before and after, the node or the answer

parseVars == <<toks, pos, root, heap, failAt, iters>>
cmpVars == <<vec, calls>>
fileVars == <<src, file, tokens, stops, success, edit>>
lexVars == <<tkz, lexlog>>
callVars == <<ret>>
vars == <<pc, toks, pos, root, heap, failAt, iters, vec, calls,
          src, file, tokens, stops, success, edit, tkz, lexlog, ret>>

\* the state of a run that reads no files
NoFiles ==
    /\ src = [f \in 1..2 |-> <<>>]
    /\ file = 1
    /\ tokens = [f \in 1..2 |-> <<>>]
    /\ stops = [f \in 1..2 |-> <<>>]
    /\ success = [f \in 1..2 |-> FALSE]
    /\ edit = [kind |-> "none", at |-> 0, piece |-> <<>>]

\* the state of a run in which no caller holds a Tokenizer object
NoLexer ==
    /\ tkz = [source |-> <<>>, current |-> 0, line |-> 1, col |-> 1, ident_counter |-> 0]
    /\ lexlog = <<>>

(***************************************************************************)
(* Bounds                                                                  *)
(***************************************************************************)
MaxVecLen == 3              \* longest flat sequence drawn for the comparator
NumLabels == 2              \* how many distinct strings a drawn sequence uses

MaxToks == 4                \* longest token array drawn for the parser
MaxFail == 2                \* latest allocation request that may be the failing one
MaxIters == MaxToks + 2     \* top-level iterations followed before the run is cut

LabelPool == <<"<STMT>", "NUM", "</STMT>", "var_0">>
Labels == {LabelPool[k] : k \in 1..NumLabels}

RECURSIVE SeqsUpTo(_, _)
SeqsUpTo(S, n) ==
    IF n = 0 THEN {<<>>}
    ELSE LET shorter == SeqsUpTo(S, n - 1)
         IN  shorter \cup {Append(s, x) : s \in {t \in shorter : Len(t) = n - 1}, x \in S}

(***************************************************************************)
(* Tokens (src/include/std_token.h)                                        *)
(***************************************************************************)
NullStr == "(nil)"          \* a NULL char pointer

Tok(type, kw, lex, raw) ==
    [type |-> type, kw |-> kw, lex |-> lex, raw |-> raw, line |-> 1, col |-> 1]
NullTok == Tok("NULL", "KW_UNKNOWN", NullStr, NullStr)      \* a NULL Token pointer
EofTok == Tok("TOKEN_EOF", "KW_UNKNOWN", "", "")
Punct(c) == Tok("TK_PUNCTUATION", "KW_UNKNOWN", c, c)
Oper(c) == Tok("TK_OPERATOR", "KW_UNKNOWN", c, c)
Kw(kw, word) == Tok("TK_KEYWORD", kw, word, word)
Ident(n, raw) == Tok("TK_IDENT", "KW_UNKNOWN", "var_" \o ToString(n), raw)

(***************************************************************************)
(* Tokenizer (src/unnamed/part_006, tokenizer.c)                           *)
(***************************************************************************)
NUL == "\\0"                \* the terminating byte of a C string

Lower == {"a", "b", "c", "d", "e", "f", "g", "h", "i", "j", "k", "l", "m", "n", "o", "p", "q", "r", "s", "t", "u", "v", "w", "x", "y", "z"}
Upper == {"A", "B", "C", "D", "E", "F", "G", "H", "I", "J", "K", "L", "M", "N", "O", "P", "Q", "R", "S", "T", "U", "V", "W", "X", "Y", "Z"}
Digits == {"0", "1", "2", "3", "4", "5", "6", "7", "8", "9"}

isspace(c) == c \in {" ", "\t", "\n", "\f", "\r"}
isalpha(c) == c \in Lower \cup Upper
isdigit(c) == c \in Digits
isalnum(c) == isalpha(c) \/ isdigit(c)
isxdigit(c) == c \in Digits \cup {"a", "b", "c", "d", "e", "f", "A", "B", "C", "D", "E", "F"}

RECURSIVE Str(_)
Str(cs) == IF cs = <<>> THEN "" ELSE Head(cs) \o Str(Tail(cs))

keyword_table ==
    << <<"if", "KW_IF">>, <<"else", "KW_ELSE">>, <<"for", "KW_FOR">>, <<"while", "KW_WHILE">>,
       <<"do", "KW_DO">>, <<"switch", "KW_SWITCH">>, <<"case", "KW_CASE">>,
       <<"default", "KW_DEFAULT">>, <<"return", "KW_RETURN">>, <<"break", "KW_BREAK">>,
       <<"continue", "KW_CONTINUE">>, <<"int", "KW_INT">>, <<"char", "KW_CHAR">>,
       <<"float", "KW_FLOAT">>, <<"double", "KW_DOUBLE">>, <<"void", "KW_VOID">>,
       <<"struct", "KW_STRUCT">>, <<"typedef", "KW_TYPEDEF">> >>

create_token(type, raw, lex, line, col) ==
    [type |-> type, kw |-> "KW_UNKNOWN", lex |-> lex, raw |-> raw, line |-> line, col |-> col]

RECURSIVE check_keyword_from(_, _)
check_keyword_from(word, i) ==
    IF i > Len(keyword_table) THEN "KW_UNKNOWN"
    ELSE IF word = keyword_table[i][1] THEN keyword_table[i][2]
    ELSE check_keyword_from(word, i + 1)

\* mutant: the search starts at the second entry of the table
check_keyword_from2(word) == check_keyword_from(word, 2)

check_keyword(word) == check_keyword_from(word, 1)

\* tk->current[k]; current is kept as an offset into source
At(tk, k) ==
    IF tk.current + k < Len(tk.source) THEN tk.source[tk.current + k + 1] ELSE NUL

\* tk->current++ with tk->col++, k times
Adv(tk, k) == [tk EXCEPT !.current = @ + k, !.col = @ + k]

\* `while (pred(*tk->current)) { tk->current++; tk->col++; }`
RECURSIVE AdvWhile(_, _)
AdvWhile(tk, S) == IF At(tk, 0) \in S THEN AdvWhile(Adv(tk, 1), S) ELSE tk

\* a byte that may be a newline is stepped over: line++/col = 1 or col++
Step(tk) ==
    IF At(tk, 0) = "\n" THEN [tk EXCEPT !.current = @ + 1, !.line = @ + 1, !.col = 1]
    ELSE Adv(tk, 1)

Raw(tk0, tk1) == Str(SubSeq(tk0.source, tk0.current + 1, tk1.current))

RECURSIVE skip_whitespace_and_comments(_), skip_line(_), skip_block(_)
\* lines 59-61: to the end of the line, col untouched
skip_line(tk) ==
    IF At(tk, 0) # NUL /\ At(tk, 0) # "\n"
    THEN skip_line([tk EXCEPT !.current = @ + 1])
    ELSE tk

\* mutant: the closing */ of a block comment is left in the input
skip_block_open(tk) ==
    IF At(tk, 0) = NUL THEN tk
    ELSE IF At(tk, 0) = "*" /\ At(tk, 1) = "/" THEN tk
    ELSE skip_block(Step(tk))

\* lines 67-80: to the closing */ or the end of the input
skip_block(tk) ==
    IF At(tk, 0) = NUL THEN tk
    ELSE IF At(tk, 0) = "*" /\ At(tk, 1) = "/" THEN Adv(tk, 2)
    ELSE skip_block(Step(tk))

skip_whitespace_and_comments(tk) ==
    IF At(tk, 0) = NUL THEN tk
    ELSE IF isspace(At(tk, 0)) THEN skip_whitespace_and_comments(Step(tk))
    ELSE IF At(tk, 0) = "/" /\ At(tk, 1) = "/"
         THEN skip_whitespace_and_comments(skip_line(tk))
    ELSE IF At(tk, 0) = "/" /\ At(tk, 1) = "*"
         THEN skip_whitespace_and_comments(skip_block(Adv(tk, 2)))
    ELSE tk

\* every reader returns the advanced tokenizer and the token it created
Lexed(tk, tok) == [tk |-> tk, tok |-> tok]

\* mutant: every word moves the counter on, a keyword too
read_identifier_kw_counts(tk) ==
    LET tk1 == AdvWhile(tk, Lower \cup Upper \cup Digits \cup {"_"})
        word == Raw(tk, tk1)
        kw == check_keyword(word)
    IN  IF kw # "KW_UNKNOWN"
        THEN Lexed([tk1 EXCEPT !.ident_counter = @ + 1],
                   [create_token("TK_KEYWORD", word, word, tk.line, tk.col)
                        EXCEPT !.kw = kw])
        ELSE Lexed([tk1 EXCEPT !.ident_counter = @ + 1],
                   create_token("TK_IDENT", word, "var_" \o ToString(tk.ident_counter),
                                tk.line, tk.col))

read_identifier(tk) ==
    LET tk1 == AdvWhile(tk, Lower \cup Upper \cup Digits \cup {"_"})
        word == Raw(tk, tk1)
        kw == check_keyword(word)
    IN  IF kw # "KW_UNKNOWN"
        THEN Lexed(tk1, [create_token("TK_KEYWORD", word, word, tk.line, tk.col)
                             EXCEPT !.kw = kw])
        ELSE Lexed([tk1 EXCEPT !.ident_counter = @ + 1],
                   create_token("TK_IDENT", word, "var_" \o ToString(tk.ident_counter),
                                tk.line, tk.col))

read_number(tk) ==
    LET hex == AdvWhile(Adv(tk, 2), Digits \cup {"a", "b", "c", "d", "e", "f",
                                                  "A", "B", "C", "D", "E", "F"})
        int == AdvWhile(tk, Digits)
        frac == IF At(int, 0) = "." THEN AdvWhile(Adv(int, 1), Digits) ELSE int
        sign == IF At(frac, 1) \in {"+", "-"} THEN Adv(frac, 2) ELSE Adv(frac, 1)
        exp == IF At(frac, 0) \in {"e", "E"} THEN AdvWhile(sign, Digits) ELSE frac
        body == IF At(tk, 0) = "0" /\ At(tk, 1) \in {"x", "X"} THEN hex ELSE exp
        tk1 == AdvWhile(body, {"L", "l", "U", "u", "F", "f"})
    IN  Lexed(tk1, create_token("TK_NUMBER", Raw(tk, tk1), "NUM", tk.line, tk.col))

\* the while loop of read_string (lines 198-215)
RECURSIVE string_body(_)
string_body(tk) ==
    IF At(tk, 0) = NUL \/ At(tk, 0) = "\"" THEN tk
    ELSE IF At(tk, 0) = "\\"
         THEN string_body(IF At(tk, 1) # NUL THEN Adv(tk, 2) ELSE Adv(tk, 1))
    ELSE string_body(Step(tk))

read_string(tk) ==
    LET body == string_body(Adv(tk, 1))
        tk1 == IF At(body, 0) = "\"" THEN Adv(body, 1) ELSE body
    IN  Lexed(tk1, create_token("TK_STRING", Raw(tk, tk1), "STR", tk.line, tk.col))

read_char(tk) ==
    LET q == Adv(tk, 1)
        esc == IF At(q, 0) = "\\" THEN Adv(q, 1) ELSE q
        one == IF At(esc, 0) # NUL THEN Adv(esc, 1) ELSE esc
        tk1 == IF At(one, 0) = "'" THEN Adv(one, 1) ELSE one
    IN  Lexed(tk1, create_token("TK_CHAR", Raw(tk, tk1), "CHAR", tk.line, tk.col))

\* the two-character operators read_operator extends to (lines 278-310)
TwoCharOps ==
    { <<"=", "=">>, <<"!", "=">>, <<"<", "=">>, <<">", "=">>, <<"&", "&">>, <<"|", "|">>,
      <<"+", "+">>, <<"-", "-">>, <<"+", "=">>, <<"-", "=">>, <<"*", "=">>, <<"/", "=">>,
      <<"%", "=">>, <<"<", "<">>, <<">", ">">>, <<"-", ">">> }

read_operator(tk) ==
    LET tk1 == IF <<At(tk, 0), At(tk, 1)>> \in TwoCharOps THEN Adv(tk, 2) ELSE Adv(tk, 1)
        op == Raw(tk, tk1)
    IN  Lexed(tk1, create_token("TK_OPERATOR", op, op, tk.line, tk.col))

read_punctuation(tk) ==
    Lexed(Adv(tk, 1), create_token("TK_PUNCTUATION", At(tk, 0), At(tk, 0), tk.line, tk.col))

tokenizer_init(source) ==
    [source |-> source, current |-> 0, line |-> 1, col |-> 1, ident_counter |-> 0]

RECURSIVE next_token_at(_)
\* mutant: a byte no token starts with is returned as punctuation
next_token_at_unknown(tk) ==
    LET c == At(tk, 0)
    IN  IF c = NUL THEN Lexed(tk, create_token("TOKEN_EOF", "", "", tk.line, tk.col))
        ELSE IF isalpha(c) \/ c = "_" THEN read_identifier(tk)
        ELSE IF isdigit(c) THEN read_number(tk)
        ELSE IF c = "\"" THEN read_string(tk)
        ELSE IF c = "'" THEN read_char(tk)
        ELSE IF c \in {"+", "-", "*", "/", "%", "=", "!", "<", ">", "&", "|", "^", "~"}
             THEN read_operator(tk)
        ELSE read_punctuation(tk)

\* tokenizer_next_token after its skip_whitespace_and_comments call
next_token_at(tk) ==
    LET c == At(tk, 0)
    IN  IF c = NUL THEN Lexed(tk, create_token("TOKEN_EOF", "", "", tk.line, tk.col))
        ELSE IF isalpha(c) \/ c = "_" THEN read_identifier(tk)
        ELSE IF isdigit(c) THEN read_number(tk)
        ELSE IF c = "\"" THEN read_string(tk)
        ELSE IF c = "'" THEN read_char(tk)
        ELSE IF c \in {"+", "-", "*", "/", "%", "=", "!", "<", ">", "&", "|", "^", "~"}
             THEN read_operator(tk)
        ELSE IF c \in {"(", ")", "{", "}", "[", "]", ";", ",", "."}
             THEN read_punctuation(tk)
        ELSE next_token_at(skip_whitespace_and_comments(Adv(tk, 1)))

tokenizer_next_token(tk) == next_token_at(skip_whitespace_and_comments(tk))

\* returns the tokenizer too: the call moves the cursor over blanks and comments
tokenizer_is_eof(tk) ==
    LET tk1 == skip_whitespace_and_comments(tk)
    IN  [tk |-> tk1, eof |-> At(tk1, 0) = NUL]

\* the while loop of tokenize_code (main.c:112-140); stops[k] is the offset
\* just past tokens[k]
RECURSIVE tokenize_loop(_, _, _)
tokenize_loop(tk, tks, ends) ==
    LET e == tokenizer_is_eof(tk)
        nx == tokenizer_next_token(e.tk)
    IN  IF e.eof THEN [tokens |-> tks, stops |-> ends]
        ELSE IF nx.tok.type = "TOKEN_EOF" THEN [tokens |-> tks, stops |-> ends]
        ELSE tokenize_loop(nx.tk, Append(tks, nx.tok), Append(ends, nx.tk.current))

tokenize_code(source) == tokenize_loop(tokenizer_init(source), <<>>, <<>>)

(***************************************************************************)
(* Tree nodes and their allocation (src/src/ast.c)                         *)
(***************************************************************************)
NullNode == [kind |-> "NULL", text |-> NullStr, children |-> <<>>, child_cap |-> 0]
IsNull(n) == n.kind = "NULL"

\* the state of a run in which no call has returned yet
NoRet == ret = [fn |-> "none", at |-> 0, node |-> NullNode, pos |-> 0, yes |-> FALSE]

RECURSIVE NodeCount(_)
NodeCount(n) ==
    IF IsNull(n) THEN 0
    ELSE LET RECURSIVE Sum(_)
             Sum(k) == IF k = 0 THEN 0 ELSE NodeCount(n.children[k]) + Sum(k - 1)
         IN  1 + Sum(Len(n.children))

EmptyHeap == [n |-> 0, live |-> 0]

\* one malloc/realloc request: it fails when it is request number failAt
Malloc(h) == [ok |-> (h.n + 1 # failAt), h |-> [h EXCEPT !.n = @ + 1]]

ast_new(kind, text, h) ==
    LET m1 == Malloc(h)
        m2 == IF text = NullStr THEN m1 ELSE Malloc(m1.h)       \* xstrdup
    IN  IF ~m1.ok THEN [node |-> NullNode, h |-> m1.h]
        ELSE IF ~m2.ok THEN [node |-> NullNode, h |-> m2.h]
        ELSE [node |-> [kind |-> kind, text |-> text, children |-> <<>>, child_cap |-> 0],
              h |-> [m2.h EXCEPT !.live = @ + 1]]

ast_add_child(parent, child, h) ==
    IF IsNull(parent) \/ IsNull(child) THEN [ok |-> FALSE, node |-> parent, h |-> h]
    ELSE IF Len(parent.children) = parent.child_cap
    THEN LET new_cap == IF parent.child_cap = 0 THEN 4 ELSE parent.child_cap * 2
             m == Malloc(h)
         IN  IF ~m.ok THEN [ok |-> FALSE, node |-> parent, h |-> m.h]
             ELSE [ok |-> TRUE,
                   node |-> [parent EXCEPT !.children = Append(@, child), !.child_cap = new_cap],
                   h |-> m.h]
    ELSE [ok |-> TRUE, node |-> [parent EXCEPT !.children = Append(@, child)], h |-> h]

ast_free(node, h) == [h EXCEPT !.live = @ - NodeCount(node)]

(***************************************************************************)
(* Structural parser (src/src/ast_parser.c)                                *)
(***************************************************************************)
peek(p, offset) ==
    LET i == p + offset
    IN  IF i >= Len(toks) THEN NullTok ELSE toks[i + 1]

cur(p) == peek(p, 0)

\* mutant: only running off the array counts as the end of the input
is_eof_null_only(t) == t.type = "NULL"

is_eof(t) == t.type = "NULL" \/ t.type = "TOKEN_EOF"

\* consume returns the token too; the callers below read it with cur first
consume(p) == IF ~is_eof(cur(p)) THEN p + 1 ELSE p

is_kw(t, kw) == t.type # "NULL" /\ t.type = "TK_KEYWORD" /\ t.kw = kw
is_punc(t, s) == t.type # "NULL" /\ t.type = "TK_PUNCTUATION" /\ t.lex # NullStr /\ t.lex = s

kw_label(kw) ==
    CASE kw = "KW_IF" -> "IF"
      [] kw = "KW_ELSE" -> "ELSE"
      [] kw = "KW_FOR" -> "FOR"
      [] kw = "KW_WHILE" -> "WHILE"
      [] kw = "KW_DO" -> "DO"
      [] kw = "KW_SWITCH" -> "SWITCH"
      [] kw = "KW_CASE" -> "CASE"
      [] kw = "KW_DEFAULT" -> "DEFAULT"
      [] kw = "KW_BREAK" -> "BREAK"
      [] kw = "KW_CONTINUE" -> "CONTINUE"
      [] kw = "KW_RETURN" -> "RETURN"
      [] OTHER -> "KW"

\* mutant: an identifier is labelled by its spelling, not by its normalized text
token_label_raw(t) ==
    IF t.type = "NULL" THEN "NULL"
    ELSE IF t.type = "TK_KEYWORD" THEN kw_label(t.kw)
    ELSE IF t.type = "TK_IDENT" THEN (IF t.raw # NullStr THEN t.raw ELSE "ID")
    ELSE IF t.type = "TK_NUMBER" THEN "NUM"
    ELSE IF t.type = "TK_STRING" THEN "STR"
    ELSE IF t.type = "TK_CHAR" THEN "CHR"
    ELSE IF t.type \in {"TK_OPERATOR", "TK_PUNCTUATION"} /\ t.lex # NullStr THEN t.lex
    ELSE "TOK"

token_label(t) ==
    IF t.type = "NULL" THEN "NULL"
    ELSE IF t.type = "TK_KEYWORD" THEN kw_label(t.kw)
    ELSE IF t.type = "TK_IDENT" THEN (IF t.lex # NullStr THEN t.lex ELSE "ID")
    ELSE IF t.type = "TK_NUMBER" THEN "NUM"
    ELSE IF t.type = "TK_STRING" THEN "STR"
    ELSE IF t.type = "TK_CHAR" THEN "CHR"
    ELSE IF t.type \in {"TK_OPERATOR", "TK_PUNCTUATION"} /\ t.lex # NullStr THEN t.lex
    ELSE "TOK"

leaf_from_token(t, h) == ast_new("AST_TOKEN", token_label(t), h)

\* what every sub-parser hands back: its node, the position, the heap
Res(node, p, h) == [node |-> node, pos |-> p, h |-> h]

\* mutant: the leaf of a token is attached twice
AddLeaf_twice(owner, t, h) ==
    LET lf == leaf_from_token(t, h)
        ad == ast_add_child(owner, lf.node, lf.h)
        again == ast_add_child(ad.node, lf.node, ad.h)
    IN  IF IsNull(lf.node) THEN [ok |-> FALSE, node |-> owner, h |-> lf.h]
        ELSE IF ~ad.ok THEN [ok |-> FALSE, node |-> owner, h |-> ast_free(lf.node, ad.h)]
        ELSE IF ~again.ok THEN [ok |-> FALSE, node |-> ad.node, h |-> again.h]
        ELSE [ok |-> TRUE, node |-> again.node, h |-> again.h]

\* `lf = leaf_from_token(t); if (!lf || !ast_add_child(owner, lf))`:
\* ok tells whether the leaf was attached; on failure lf is freed
AddLeaf(owner, t, h) ==
    LET lf == leaf_from_token(t, h)
        ad == ast_add_child(owner, lf.node, lf.h)
    IN  IF IsNull(lf.node) THEN [ok |-> FALSE, node |-> owner, h |-> lf.h]
        ELSE IF ~ad.ok THEN [ok |-> FALSE, node |-> owner, h |-> ast_free(lf.node, ad.h)]
        ELSE [ok |-> TRUE, node |-> ad.node, h |-> ad.h]

\* `if (child) ast_add_child(parent, child);` with the result ignored
AddChild(parent, child, h) ==
    LET ad == ast_add_child(parent, child, h)
    IN  [node |-> ad.node, h |-> ad.h]

RECURSIVE parse_statement(_, _), parse_block(_, _), paren_loop(_, _, _, _),
          semi_loop(_, _, _, _, _), case_expr_loop(_, _, _), body_loop(_, _, _, _),
          header_loop(_, _, _)

\* the while loop of parse_paren_expr (lines 133-149); a NullNode result
\* means expr was freed
paren_loop(expr, p, depth, h) ==
    IF is_eof(cur(p)) \/ depth <= 0 THEN Res(expr, p, h)
    ELSE LET t == cur(p)
             p1 == consume(p)
             closes == t.type = "TK_PUNCTUATION" /\ t.lex # NullStr /\ t.lex = ")"
             depth1 == IF closes THEN depth - 1 ELSE depth
             lf == AddLeaf(expr, t, h)
         IN  IF closes /\ depth1 = 0 THEN Res(expr, p1, h)
             ELSE IF ~lf.ok THEN Res(NullNode, p1, ast_free(expr, lf.h))
             ELSE paren_loop(lf.node, p1, depth1, lf.h)

\* mutant: the Expression node is allocated before the `(` test and dropped
\* without ast_free when there is no `(`
parse_paren_expr_leak(p, h) ==
    LET expr == ast_new("AST_EXPR", NullStr, h)
    IN  IF IsNull(expr.node) THEN Res(NullNode, p, expr.h)
        ELSE IF ~is_punc(cur(p), "(") THEN Res(NullNode, p, expr.h)
        ELSE paren_loop(expr.node, consume(p), 1, expr.h)

parse_paren_expr(p, h) ==
    IF ~is_punc(cur(p), "(") THEN Res(NullNode, p, h)
    ELSE LET p1 == consume(p)
             expr == ast_new("AST_EXPR", NullStr, h)
         IN  IF IsNull(expr.node) THEN Res(NullNode, p1, expr.h)
             ELSE paren_loop(expr.node, p1, 1, expr.h)

\* mutant: square brackets are not counted
semi_loop_no_brackets(st, p, par, brk, h) ==
    IF is_eof(cur(p)) THEN Res(st, p, h)
    ELSE LET t == cur(p)
             par1 == IF is_punc(t, "(") THEN par + 1
                     ELSE IF is_punc(t, ")") /\ par > 0 THEN par - 1 ELSE par
             top == par1 = 0
             lf == AddLeaf(st, t, h)
         IN  IF top /\ is_punc(t, ";") THEN Res(st, consume(p), h)
             ELSE IF top /\ is_punc(t, "{") THEN Res(st, p, h)
             ELSE IF top /\ is_punc(t, "}") THEN Res(st, p, h)
             ELSE IF ~lf.ok THEN Res(NullNode, consume(p), ast_free(st, lf.h))
             ELSE semi_loop(lf.node, consume(p), par1, 0, lf.h)

\* the while loop of parse_until_semicolon (lines 169-196)
semi_loop(st, p, par, brk, h) ==
    IF is_eof(cur(p)) THEN Res(st, p, h)
    ELSE LET t == cur(p)
             par1 == IF is_punc(t, "(") THEN par + 1
                     ELSE IF is_punc(t, ")") /\ par > 0 THEN par - 1 ELSE par
             brk1 == IF is_punc(t, "[") THEN brk + 1
                     ELSE IF is_punc(t, "]") /\ brk > 0 THEN brk - 1 ELSE brk
             top == par1 = 0 /\ brk1 = 0
             lf == AddLeaf(st, t, h)
         IN  IF top /\ is_punc(t, ";") THEN Res(st, consume(p), h)
             ELSE IF top /\ is_punc(t, "{") THEN Res(st, p, h)
             ELSE IF top /\ is_punc(t, "}") THEN Res(st, p, h)
             ELSE IF ~lf.ok THEN Res(NullNode, consume(p), ast_free(st, lf.h))
             ELSE semi_loop(lf.node, consume(p), par1, brk1, lf.h)

parse_until_semicolon(p, kind, h) ==
    LET st == ast_new(kind, NullStr, h)
    IN  IF IsNull(st.node) THEN Res(NullNode, p, st.h)
        ELSE semi_loop(st.node, p, 0, 0, st.h)

\* `x = parse_...(p); if (x) ast_add_child(owner, x);`: r is what the
\* sub-parser handed back
Attach(owner, r) ==
    LET ad == AddChild(owner, r.node, r.h)
    IN  Res(ad.node, r.pos, ad.h)

\* `st = parse_...(p); if (st) ast_add_child(owner, st); else consume(p);`
AttachOrSkip(owner, r) ==
    LET ad == AddChild(owner, r.node, r.h)
    IN  Res(ad.node, IF IsNull(r.node) THEN consume(r.pos) ELSE r.pos, ad.h)

\* `cond = parse_paren_expr(p); if (cond) ast_add_child(n, cond);` with n = s.node
ParenExprInto(s) == Attach(s.node, parse_paren_expr(s.pos, s.h))

\* `body = parse_statement(p); if (body) ast_add_child(n, body);` with n = s.node
StatementInto(s) == Attach(s.node, parse_statement(s.pos, s.h))

\* `if (is_punc(cur(p), c)) consume(p);`
OptPunct(s, c) == Res(s.node, IF is_punc(cur(s.pos), c) THEN consume(s.pos) ELSE s.pos, s.h)

\* parse_for, parse_while and parse_switch after `consume(p); n = ast_new(kind);`
HeadAndBody_n(p1, n) ==
    IF IsNull(n.node) THEN Res(NullNode, p1, n.h)
    ELSE StatementInto(ParenExprInto(Res(n.node, p1, n.h)))

\* `consume(p); n = ast_new(kind); cond = parse_paren_expr(p); if (cond) add;
\* body = parse_statement(p); if (body) add; return n;` shared by for/while/switch
HeadAndBody(kind, p, h) == HeadAndBody_n(consume(p), ast_new(kind, NullStr, h))

\* lines 213-220 once else_node is allocated: s.node is n, p2 is past `else`
parse_if_else_node(s, p2, else_node) ==
    IF IsNull(else_node.node) THEN Res(NullNode, p2, ast_free(s.node, else_node.h))
    ELSE Attach(s.node, StatementInto(Res(else_node.node, p2, else_node.h)))

\* mutant: the else statement is attached to the If node itself, without the
\* Block labelled ELSE around it
parse_if_else_unwrapped(s) ==
    IF ~is_kw(cur(s.pos), "KW_ELSE") THEN s
    ELSE StatementInto(Res(s.node, consume(s.pos), s.h))

\* lines 212-221: the optional else branch
parse_if_else(s) ==
    IF ~is_kw(cur(s.pos), "KW_ELSE") THEN s
    ELSE parse_if_else_node(s, consume(s.pos), ast_new("AST_BLOCK", "ELSE", s.h))

\* lines 205-222, after `consume(p); n = ast_new(AST_IF, NULL);`
parse_if_n(p1, n) ==
    IF IsNull(n.node) THEN Res(NullNode, p1, n.h)
    ELSE parse_if_else(StatementInto(ParenExprInto(Res(n.node, p1, n.h))))

parse_if(p, h) == parse_if_n(consume(p), ast_new("AST_IF", NullStr, h))

parse_for(p, h) == HeadAndBody("AST_FOR", p, h)

parse_while(p, h) == HeadAndBody("AST_WHILE", p, h)

\* lines 268-273: the `while (cond) ;` tail when the keyword is there
parse_do_while_tail(s) ==
    IF ~is_kw(cur(s.pos), "KW_WHILE") THEN s
    ELSE OptPunct(ParenExprInto(Res(s.node, consume(s.pos), s.h)), ";")

parse_do_while_n(p1, n) ==
    IF IsNull(n.node) THEN Res(NullNode, p1, n.h)
    ELSE parse_do_while_tail(StatementInto(Res(n.node, p1, n.h)))

parse_do_while(p, h) == parse_do_while_n(consume(p), ast_new("AST_DO_WHILE", NullStr, h))

parse_switch(p, h) == HeadAndBody("AST_SWITCH", p, h)

\* the first while loop of parse_case (lines 308-316)
case_expr_loop(expr, p, h) ==
    IF is_eof(cur(p)) \/ is_punc(cur(p), ":") \/ is_punc(cur(p), "{") \/ is_punc(cur(p), "}")
    THEN Res(expr, p, h)
    ELSE LET lf == AddLeaf(expr, cur(p), h)
         IN  IF ~lf.ok THEN Res(NullNode, consume(p), ast_free(expr, lf.h))
             ELSE case_expr_loop(lf.node, consume(p), lf.h)

\* the next round of body_loop from what the last round left
body_next(in_case, s) == body_loop(s.node, s.pos, in_case, s.h)

\* the statement-collecting loop of parse_case, parse_default and parse_block:
\* `st = parse_statement(p); if (st) ast_add_child(body, st); else consume(p);`
body_loop(body, p, in_case, h) ==
    IF \/ is_eof(cur(p))
       \/ is_punc(cur(p), "}")
       \/ (in_case /\ (is_kw(cur(p), "KW_CASE") \/ is_kw(cur(p), "KW_DEFAULT")))
    THEN Res(body, p, h)
    ELSE body_next(in_case, AttachOrSkip(body, parse_statement(p, h)))

\* the branch body of parse_case (lines 320-329) and parse_default (lines
\* 341-350): s.node is n; only parse_default frees n when body is null
CaseBody(s, body, free_n) ==
    IF IsNull(body.node)
    THEN Res(NullNode, s.pos, IF free_n THEN ast_free(s.node, body.h) ELSE body.h)
    ELSE Attach(s.node, body_loop(body.node, s.pos, TRUE, body.h))

parse_case_body(s) == CaseBody(s, ast_new("AST_BLOCK", "CASE BODY", s.h), FALSE)

\* lines 317-318: `if (is_punc(cur(p), ":")) consume(p); ast_add_child(n, expr);`
parse_case_colon(n, ex) ==
    IF IsNull(ex.node) THEN Res(NullNode, ex.pos, ex.h)
    ELSE parse_case_body(OptPunct(Attach(n.node, ex), ":"))

\* lines 305-316: `if (!expr) return NULL;` leaves n allocated
parse_case_expr(p1, n, expr) ==
    IF IsNull(expr.node) THEN Res(NullNode, p1, expr.h)
    ELSE parse_case_colon(n, case_expr_loop(expr.node, p1, expr.h))

parse_case_n(p1, n) ==
    IF IsNull(n.node) THEN Res(NullNode, p1, n.h)
    ELSE parse_case_expr(p1, n, ast_new("AST_EXPR", NullStr, n.h))

parse_case(p, h) == parse_case_n(consume(p), ast_new("AST_CASE", NullStr, h))

parse_default_body(s) == CaseBody(s, ast_new("AST_BLOCK", "DEFAULT BODY", s.h), TRUE)

parse_default_n(p1, n) ==
    IF IsNull(n.node) THEN Res(NullNode, p1, n.h)
    ELSE parse_default_body(OptPunct(Res(n.node, p1, n.h), ":"))

parse_default(p, h) == parse_default_n(consume(p), ast_new("AST_DEFAULT", NullStr, h))

parse_return_n(p1, n) ==
    IF IsNull(n.node) THEN Res(NullNode, p1, n.h)
    ELSE Attach(n.node, parse_until_semicolon(p1, "AST_EXPR", n.h))

parse_return(p, h) == parse_return_n(consume(p), ast_new("AST_RETURN", NullStr, h))

\* `n = ast_new(kind); if (is_punc(cur(p), ";")) consume(p); return n;`
KeywordOnly(kind, p, h) ==
    LET p1 == consume(p)
        n == ast_new(kind, NullStr, h)
        p2 == IF is_punc(cur(p1), ";") THEN consume(p1) ELSE p1
    IN  Res(n.node, p2, n.h)

parse_break(p, h) == KeywordOnly("AST_BREAK", p, h)

parse_continue(p, h) == KeywordOnly("AST_CONTINUE", p, h)

\* lines 392-403, after `consume(p); b = ast_new(AST_BLOCK, NULL);`
parse_block_b(p1, b) ==
    IF IsNull(b.node) THEN Res(NullNode, p1, b.h)
    ELSE OptPunct(body_loop(b.node, p1, FALSE, b.h), "}")

parse_block(p, h) ==
    IF ~is_punc(cur(p), "{") THEN Res(NullNode, p, h)
    ELSE parse_block_b(consume(p), ast_new("AST_BLOCK", NullStr, h))

parse_statement(p, h) ==
    LET t == cur(p)
    IN  IF is_eof(t) THEN Res(NullNode, p, h)
        ELSE IF is_punc(t, "{") THEN parse_block(p, h)
        ELSE IF is_kw(t, "KW_IF") THEN parse_if(p, h)
        ELSE IF is_kw(t, "KW_FOR") THEN parse_for(p, h)
        ELSE IF is_kw(t, "KW_WHILE") THEN parse_while(p, h)
        ELSE IF is_kw(t, "KW_DO") THEN parse_do_while(p, h)
        ELSE IF is_kw(t, "KW_SWITCH") THEN parse_switch(p, h)
        ELSE IF is_kw(t, "KW_CASE") THEN parse_case(p, h)
        ELSE IF is_kw(t, "KW_DEFAULT") THEN parse_default(p, h)
        ELSE IF is_kw(t, "KW_RETURN") THEN parse_return(p, h)
        ELSE IF is_kw(t, "KW_BREAK") THEN parse_break(p, h)
        ELSE IF is_kw(t, "KW_CONTINUE") THEN parse_continue(p, h)
        ELSE parse_until_semicolon(p, "AST_STMT", h)

\* the scan of looks_like_function from index i (lines 449-463)
RECURSIVE looks_scan(_, _, _, _)
looks_scan(i, par, saw_l, saw_r) ==
    IF i >= Len(toks) THEN FALSE
    ELSE LET t == toks[i + 1]
         IN  IF t.type = "NULL" \/ t.type = "TOKEN_EOF" THEN FALSE
             ELSE IF par = 0 /\ is_punc(t, ";") THEN FALSE
             ELSE IF is_punc(t, "(") THEN looks_scan(i + 1, par + 1, TRUE, saw_r)
             ELSE IF is_punc(t, ")")
                  THEN LET par1 == IF par > 0 THEN par - 1 ELSE par
                       IN  looks_scan(i + 1, par1, saw_l, saw_r \/ (par1 = 0 /\ saw_l))
             ELSE IF par = 0 /\ is_punc(t, "{") THEN saw_l /\ saw_r
             ELSE looks_scan(i + 1, par, saw_l, saw_r)

looks_like_function(p) == looks_scan(p, 0, FALSE, FALSE)

\* the header loop of parse_function (lines 479-488)
header_loop(header, p, h) ==
    IF is_eof(cur(p)) \/ is_punc(cur(p), "{") THEN Res(header, p, h)
    ELSE LET lf == AddLeaf(header, cur(p), h)
         IN  IF ~lf.ok THEN Res(NullNode, consume(p), ast_free(header, lf.h))
             ELSE header_loop(lf.node, consume(p), lf.h)

\* `body = parse_block(p); if (body) ast_add_child(fn, body);` with fn = s.node
BlockInto(s) == Attach(s.node, parse_block(s.pos, s.h))

\* mutant: the header is not made a child of the Function node
parse_function_body_no_header(fn, hd) ==
    IF IsNull(hd.node) THEN Res(NullNode, hd.pos, ast_free(fn.node, hd.h))
    ELSE BlockInto(Res(fn.node, hd.pos, hd.h))

\* lines 489-493: `ast_add_child(fn, header);`, then the body
parse_function_body(fn, hd) ==
    IF IsNull(hd.node) THEN Res(NullNode, hd.pos, ast_free(fn.node, hd.h))
    ELSE BlockInto(Attach(fn.node, hd))

parse_function_header(p, fn, header) ==
    IF IsNull(header.node) THEN Res(NullNode, p, ast_free(fn.node, header.h))
    ELSE parse_function_body(fn, header_loop(header.node, p, header.h))

parse_function_fn(p, fn) ==
    IF IsNull(fn.node) THEN Res(NullNode, p, fn.h)
    ELSE parse_function_header(p, fn, ast_new("AST_STMT", "FUNC_HEADER", fn.h))

parse_function(p, h) == parse_function_fn(p, ast_new("AST_FUNCTION", NullStr, h))

(***************************************************************************)
(* Linearizer (src/src/ast.c ast_kind_name, src/src/ast_serial.c)          *)
(***************************************************************************)
ast_kind_name(kind) ==
    CASE kind = "AST_PROGRAM" -> "PROGRAM"
      [] kind = "AST_FUNCTION" -> "FUNCTION"
      [] kind = "AST_BLOCK" -> "BLOCK"
      [] kind = "AST_IF" -> "IF"
      [] kind = "AST_FOR" -> "FOR"
      [] kind = "AST_WHILE" -> "WHILE"
      [] kind = "AST_DO_WHILE" -> "DO_WHILE"
      [] kind = "AST_SWITCH" -> "SWITCH"
      [] kind = "AST_CASE" -> "CASE"
      [] kind = "AST_DEFAULT" -> "DEFAULT"
      [] kind = "AST_RETURN" -> "RETURN"
      [] kind = "AST_BREAK" -> "BREAK"
      [] kind = "AST_CONTINUE" -> "CONTINUE"
      [] kind = "AST_STMT" -> "STMT"
      [] kind = "AST_EXPR" -> "EXPR"
      [] kind = "AST_TOKEN" -> "TOKEN"
      [] OTHER -> "UNKNOWN"

\* capacity of a StrVec holding `size` strings: 0, then 16, 32, ... by doubling
RECURSIVE sv_cap_from(_, _)
sv_cap_from(size, cap) == IF cap >= size THEN cap ELSE sv_cap_from(size, 2 * cap)
sv_cap(size) == IF size = 0 THEN 0 ELSE sv_cap_from(size, 16)

\* out is the data of the StrVec; one request for the copy, one to grow
sv_push(out, s, h) ==
    LET dup == Malloc(h)
        grow == Malloc(dup.h)
    IN  IF s = NullStr THEN [ok |-> FALSE, out |-> out, h |-> h]
        ELSE IF ~dup.ok THEN [ok |-> FALSE, out |-> out, h |-> dup.h]
        ELSE IF Len(out) = sv_cap(Len(out))
             THEN (IF ~grow.ok THEN [ok |-> FALSE, out |-> out, h |-> grow.h]
                   ELSE [ok |-> TRUE, out |-> Append(out, s), h |-> grow.h])
        ELSE [ok |-> TRUE, out |-> Append(out, s), h |-> dup.h]

RECURSIVE emit_node(_, _, _), emit_children(_, _, _, _)
\* the for loop of emit_node over n->children (lines 105-107)
emit_children(n, i, out, h) ==
    IF i > Len(n.children) THEN [ok |-> TRUE, out |-> out, h |-> h]
    ELSE LET e == emit_node(n.children[i], out, h)
         IN  IF ~e.ok THEN e ELSE emit_children(n, i + 1, e.out, e.h)

\* mutant: the label of a token node is not pushed
emit_node_no_label(n, out, h) ==
    IF IsNull(n) THEN [ok |-> TRUE, out |-> out, h |-> h]
    ELSE LET open == sv_push(out, "<" \o ast_kind_name(n.kind) \o ">", h)
             kids == emit_children(n, 1, open.out, open.h)
             close == sv_push(kids.out, "</" \o ast_kind_name(n.kind) \o ">", kids.h)
         IN  IF ~open.ok THEN open
             ELSE IF ~kids.ok THEN kids
             ELSE close

emit_node(n, out, h) ==
    IF IsNull(n) THEN [ok |-> TRUE, out |-> out, h |-> h]
    ELSE LET open == sv_push(out, "<" \o ast_kind_name(n.kind) \o ">", h)
             label == IF n.kind = "AST_TOKEN" /\ n.text # NullStr
                      THEN sv_push(open.out, n.text, open.h)
                      ELSE open
             kids == emit_children(n, 1, label.out, label.h)
             close == sv_push(kids.out, "</" \o ast_kind_name(n.kind) \o ">", kids.h)
         IN  IF ~open.ok THEN open
             ELSE IF ~label.ok THEN label
             ELSE IF ~kids.ok THEN kids
             ELSE close

\* mutant: the markers of the root are left out
ast_serialize_preorder_inner(r, out, h) ==
    IF IsNull(r) THEN [ok |-> FALSE, out |-> out, h |-> h]
    ELSE emit_children(r, 1, out, h)

ast_serialize_preorder(r, out, h) ==
    IF IsNull(r) THEN [ok |-> FALSE, out |-> out, h |-> h]
    ELSE emit_node(r, out, h)

(***************************************************************************)
(* Sequence comparator (src/src/edit_distance.c)                           *)
(***************************************************************************)
StrVec(d) == [null |-> FALSE, data |-> d]
NullVec == [null |-> TRUE, data |-> <<>>]

\* mutant: the first comparison written with <= instead of <
min3_le(a, b, c) == IF a <= b THEN a ELSE IF b < c THEN b ELSE c

min3(a, b, c) == IF a < b THEN a ELSE IF b < c THEN b ELSE c

\* mutant: any two strings count as equal
eq_any(x, y) == TRUE

eq(x, y) == x = y

\* the assignments of the loops are carried out one by one: Computed(v) has
\* the value of an entry or a row worked out before the next step is taken
Computed(v) == v = v

\* inner loop over j: fills v[cur][1..m]; vcur[j+1] stands for v[cur][j]
RECURSIVE lev_row(_, _, _, _, _)
\* mutant: a substitution is charged 2 (a deletion plus an insertion)
lev_row_cost2(ai, B, j, prev, vcur) ==
    IF Computed(vcur) /\ j > Len(B) THEN vcur
    ELSE LET cost == IF eq(ai, B[j]) THEN 0 ELSE 2
             del  == prev[j + 1] + 1
             ins  == vcur[j] + 1
             sub  == prev[j] + cost
         IN  lev_row(ai, B, j + 1, prev, Append(vcur, min3(del, ins, sub)))

lev_row(ai, B, j, prev, vcur) ==
    IF Computed(vcur) /\ j > Len(B) THEN vcur
    ELSE LET cost == IF eq(ai, B[j]) THEN 0 ELSE 1
             del  == prev[j + 1] + 1
             ins  == vcur[j] + 1
             sub  == prev[j] + cost
         IN  lev_row(ai, B, j + 1, prev, Append(vcur, min3(del, ins, sub)))

\* outer loop over i: returns v[prev] after the last swap of cur and prev
RECURSIVE lev_rows(_, _, _, _)
lev_rows(A, B, i, prev) ==
    IF Computed(prev) /\ i > Len(A) THEN prev
    ELSE lev_rows(A, B, i + 1, lev_row(A[i], B, 1, prev, <<i>>))

\* mutant: the early returns for an empty operand give the wrong length
levenshtein_strvec_empty(a, b, mem) ==
    IF a.null \/ b.null THEN 0
    ELSE LET swap == Len(b.data) > Len(a.data)
             A == IF swap THEN b.data ELSE a.data
             B == IF swap THEN a.data ELSE b.data
             n == Len(A)
             m == Len(B)
         IN  IF m = 0 THEN m
             ELSE IF n = 0 THEN n
             ELSE IF ~mem THEN 0
             ELSE lev_rows(A, B, 1, [j \in 1..(m + 1) |-> j - 1])[m + 1]

levenshtein_strvec(a, b, mem) ==
    IF a.null \/ b.null THEN 0
    ELSE LET swap == Len(b.data) > Len(a.data)
             A == IF swap THEN b.data ELSE a.data
             B == IF swap THEN a.data ELSE b.data
             n == Len(A)
             m == Len(B)
         IN  IF m = 0 THEN n
             ELSE IF n = 0 THEN m
             ELSE IF ~mem THEN 0
             ELSE lev_rows(A, B, 1, [j \in 1..(m + 1) |-> j - 1])[m + 1]

\* the double 1.0 - dist/mx, kept as the exact fraction num/den
similarity_from_dist(dist, lenA, lenB) ==
    LET mx == IF lenA > lenB THEN lenA ELSE lenB
    IN  IF mx = 0 THEN [num |-> 1, den |-> 1]
        ELSE [num |-> mx - dist, den |-> mx]

\* edit_distance.c:46-52: the calls that return before any row is requested
lev_early_return(a, b) ==
    a.null \/ b.null \/ Len(a.data) = 0 \/ Len(b.data) = 0

\* edit_distance.c:55-57: the two rows are requested one after the other, and
\* the call goes on only when both requests were served
lev_alloc(h) ==
    LET v0 == Malloc(h)
        v1 == Malloc(v0.h)
    IN  [ok |-> v0.ok /\ v1.ok, h |-> v1.h]

\* a third sequence for a test with three operands: B, or B and one more label
OneLonger(B) ==
    {B} \cup {Append(B, l) : l \in {x \in Labels : Len(B) < MaxVecLen}}

\* the comparisons a test of the comparator makes, in order
Pairs == << <<1, 2>>, <<2, 1>>, <<2, 3>>, <<1, 3>>, <<1, 1>> >>

CmpInit ==
    /\ pc = "cmp_test"
    /\ \E A \in SeqsUpTo(Labels, MaxVecLen), B \in SeqsUpTo(Labels, MaxVecLen) :
          \E C \in OneLonger(B) : vec = <<StrVec(A), StrVec(B), StrVec(C)>>
    /\ calls = <<>>
    /\ toks = <<>> /\ pos = 0 /\ root = NullNode /\ heap = EmptyHeap
    /\ failAt \in 0..MaxFail /\ iters = 0
    /\ NoFiles /\ NoLexer /\ NoRet

\* main.c:321-322: distance, then similarity from the two sizes; mem records
\* whether the rows of this call were served
Compare(a, b) ==
    LET rows == IF lev_early_return(vec[a], vec[b]) THEN [ok |-> TRUE, h |-> heap]
                ELSE lev_alloc(heap)
        d == levenshtein_strvec(vec[a], vec[b], rows.ok)
    IN  /\ calls' = Append(calls,
                       [a |-> a, b |-> b, mem |-> rows.ok, dist |-> d,
                        sim |-> similarity_from_dist(d, Len(vec[a].data), Len(vec[b].data))])
        /\ heap' = rows.h

CompareNext ==
    /\ Len(calls) < Len(Pairs)
    /\ Compare(Pairs[Len(calls) + 1][1], Pairs[Len(calls) + 1][2])
    /\ UNCHANGED <<pc, vec, toks, pos, root, failAt, iters, fileVars, lexVars, callVars>>

CmpNext == CompareNext
SpecCmp == CmpInit /\ [][CmpNext]_vars

(***************************************************************************)
(* ast_parse_tokens as a state machine: one action per loop iteration      *)
(***************************************************************************)
ParserPool ==
    { Punct("{"), Punct("}"), Punct("("), Punct(")"), Punct(";"),
      Ident(0, "x"), Kw("KW_IF", "if"), Kw("KW_ELSE", "else"),
      Kw("KW_CASE", "case"), EofTok }

\* the tokens of `int f(int x) { return x; }`
FunctionExample ==
    << Kw("KW_INT", "int"), Ident(0, "f"), Punct("("), Kw("KW_INT", "int"), Ident(1, "x"),
       Punct(")"), Punct("{"), Kw("KW_RETURN", "return"), Ident(2, "x"), Punct(";"),
       Punct("}") >>

\* lines 509-512: Parser p = { toks, ntoks, 0 }; root = ast_new(AST_PROGRAM)
ParseBegin ==
    /\ pc = "parse_start"
    /\ LET r == ast_new("AST_PROGRAM", NullStr, heap)
       IN  /\ root' = r.node
           /\ heap' = r.h
           /\ pc' = IF IsNull(r.node) THEN "parse_done" ELSE "parse_loop"
    /\ pos' = 0
    /\ UNCHANGED <<toks, failAt, iters, vec, calls, fileVars, lexVars, callVars>>

\* lines 514-521: one iteration of the top-level loop
ParseIter ==
    /\ pc = "parse_loop"
    /\ ~is_eof(cur(pos))
    /\ iters < MaxIters
    /\ \E s \in {AttachOrSkip(root, IF looks_like_function(pos)
                                     THEN parse_function(pos, heap)
                                     ELSE parse_statement(pos, heap))} :
          /\ root' = s.node
          /\ heap' = s.h
          /\ pos' = s.pos
    /\ iters' = iters + 1
    /\ UNCHANGED <<pc, toks, failAt, vec, calls, fileVars, lexVars, callVars>>

\* line 522: the loop condition fails, root is returned
ParseReturn ==
    /\ pc = "parse_loop"
    /\ is_eof(cur(pos))
    /\ pc' = "parse_done"
    /\ UNCHANGED <<toks, pos, root, heap, failAt, iters, vec, calls, fileVars, lexVars, callVars>>

ParseInit ==
    /\ pc = "parse_start"
    /\ toks \in SeqsUpTo(ParserPool, MaxToks) \cup {FunctionExample}
    /\ failAt \in 0..MaxFail
    /\ pos = 0
    /\ root = NullNode
    /\ heap = EmptyHeap
    /\ iters = 0
    /\ vec = [k \in 1..3 |-> StrVec(<<>>)]
    /\ calls = <<>>
    /\ NoFiles /\ NoLexer /\ NoRet

ParseNext == ParseBegin \/ ParseIter \/ ParseReturn
SpecParse == ParseInit /\ [][ParseNext]_vars

\* main.c:102-144 and 179: the array process_code hands over holds no
\* end-of-input token, tokenize_code having freed it
EofInit ==
    /\ pc = "parse_start"
    /\ toks \in SeqsUpTo(ParserPool \ {EofTok}, MaxToks) \cup {FunctionExample}
    /\ failAt = 0
    /\ pos = 0
    /\ root = NullNode
    /\ heap = EmptyHeap
    /\ iters = 0
    /\ vec = [k \in 1..3 |-> StrVec(<<>>)]
    /\ calls = <<>>
    /\ NoFiles /\ NoLexer /\ NoRet

\* ast_parser.c:508: a second call of ast_parse_tokens, on the same tokens
\* followed by an end-of-input token; what the first call returned is kept
ParseAgainWithEof ==
    /\ pc = "parse_done"
    /\ ret.fn = "none"
    /\ ret' = [fn |-> "ast_parse_tokens", at |-> 0, node |-> root, pos |-> pos,
               yes |-> ~IsNull(root)]
    /\ toks' = Append(toks, EofTok)
    /\ pc' = "parse_start"
    /\ pos' = 0 /\ root' = NullNode /\ heap' = EmptyHeap /\ iters' = 0
    /\ UNCHANGED <<failAt, vec, calls, fileVars, lexVars>>

EofNext == ParseBegin \/ ParseIter \/ ParseReturn \/ ParseAgainWithEof
SpecEof == EofInit /\ [][EofNext]_vars

(***************************************************************************)
(* process_code and compare_files (src/src/main.c) as a state machine      *)
(***************************************************************************)
RECURSIVE Flatten(_)
Flatten(ps) == IF ps = <<>> THEN <<>> ELSE Head(ps) \o Flatten(Tail(ps))

Start(f, k) == stops[f][k] - Len(tokens[f][k].raw)

\* compare_files runs process_code on file 1, then on file 2, then compares
AfterFile == IF file = 1 THEN "read_second" ELSE "compare"

\* main.c:155-171: tokenize_code, then the empty-file test
TokenizeCode ==
    /\ pc = "tokenize"
    /\ LET r == tokenize_code(src[file])
       IN  /\ tokens' = [tokens EXCEPT ![file] = r.tokens]
           /\ stops' = [stops EXCEPT ![file] = r.stops]
           /\ IF Len(r.tokens) = 0
              THEN /\ success' = [success EXCEPT ![file] = FALSE]
                   /\ pc' = AfterFile
                   /\ UNCHANGED <<toks, pos, root, heap, iters>>
              ELSE /\ toks' = r.tokens
                   /\ pos' = 0 /\ root' = NullNode /\ heap' = EmptyHeap /\ iters' = 0
                   /\ pc' = "parse_start"
                   /\ UNCHANGED success
    /\ UNCHANGED <<failAt, vec, calls, src, file, edit, lexVars, callVars>>

\* main.c:181-217: the null test on the tree, serialization, clean-up
Serialize ==
    /\ pc = "parse_done"
    /\ LET r == ast_serialize_preorder(root, <<>>, heap)
       IN  /\ success' = [success EXCEPT ![file] = r.ok]
           /\ vec' = [vec EXCEPT ![file] = StrVec(IF r.ok THEN r.out ELSE <<>>)]
           /\ heap' = ast_free(root, r.h)
    /\ root' = NullNode
    /\ pc' = AfterFile
    /\ UNCHANGED <<toks, pos, failAt, iters, calls, src, file, tokens, stops, edit, lexVars, callVars>>

\* main.c:314-322
CompareFiles ==
    /\ pc = "compare"
    /\ IF success[1] /\ success[2]
       THEN Compare(1, 2)
       ELSE UNCHANGED <<calls, heap>>
    /\ pc' = "done"
    /\ UNCHANGED <<vec, toks, pos, root, failAt, iters, fileVars, lexVars, callVars>>

Splice(s, from, to, piece) == SubSeq(s, 1, from) \o piece \o SubSeq(s, to + 1, Len(s))

\* other spellings of an identifier, a number, a string and a character literal
Respellings(type) ==
    CASE type = "TK_IDENT" -> { <<"z", "z">> }
      [] type = "TK_NUMBER" -> { <<"0", "x", "1", "F">> }
      [] type = "TK_STRING" -> { <<"\"", "\\", "\"", "\"">> }
      [] type = "TK_CHAR" -> { <<"'", "\\", "n", "'">> }
      [] OTHER -> {}

\* the second file is the first with one identifier or literal respelled
ReadRespelled ==
    /\ pc = "read_second"
    /\ \E k \in 1..Len(tokens[1]) : \E alt \in Respellings(tokens[1][k].type) :
          /\ src' = [src EXCEPT ![2] = Splice(src[1], Start(1, k), stops[1][k], alt)]
          /\ edit' = [kind |-> "respell", at |-> Start(1, k), piece |-> alt]
    /\ file' = 2
    /\ pc' = "tokenize"
    /\ UNCHANGED <<parseVars, vec, calls, tokens, stops, success, lexVars, callVars>>

\* blanks and comments that may be put between two tokens
Trivia ==
    { <<" ">>, <<"\n">>, <<"/", "/", "c", "\n">>, <<"/", "*", "c", "*", "/">> }

\* the second file is the first with blanks or a comment put right after a
\* token or right before the next one
ReadWithTrivia ==
    /\ pc = "read_second"
    /\ \E k \in 1..(Len(tokens[1]) - 1) : \E at \in {stops[1][k], Start(1, k + 1)} :
       \E piece \in Trivia :
          /\ src' = [src EXCEPT ![2] = Splice(src[1], at, at, piece)]
          /\ edit' = [kind |-> "insert", at |-> at, piece |-> piece]
    /\ file' = 2
    /\ pc' = "tokenize"
    /\ UNCHANGED <<parseVars, vec, calls, tokens, stops, success, lexVars, callVars>>

MaxPieces == 3              \* how many lexemes a source text to respell is made of
MaxChars == 4               \* how many characters a source text to pad is made of

RenamePool ==
    { <<"x", " ">>, <<"1", " ">>, <<"\"", "s", "\"">>, <<"'", "c", "'">>,
      <<"i", "f", "(", "x", ")">>, <<";">> }

TriviaPool ==
    { <<"a">>, <<"/">>, <<"*">>, <<"'">>, <<";">>, <<" ">> }

FilesInit(pool, n) ==
    /\ pc = "tokenize"
    /\ src \in {[f \in 1..2 |-> IF f = 1 THEN Flatten(ps) ELSE <<>>] :
                   ps \in SeqsUpTo(pool, n)}
    /\ file = 1
    /\ tokens = [f \in 1..2 |-> <<>>]
    /\ stops = [f \in 1..2 |-> <<>>]
    /\ success = [f \in 1..2 |-> FALSE]
    /\ edit = [kind |-> "none", at |-> 0, piece |-> <<>>]
    /\ toks = <<>> /\ pos = 0 /\ root = NullNode /\ heap = EmptyHeap
    /\ failAt = 0 /\ iters = 0
    /\ vec = [k \in 1..3 |-> StrVec(<<>>)]
    /\ calls = <<>>
    /\ NoLexer /\ NoRet

ProcessNext ==
    TokenizeCode \/ ParseBegin \/ ParseIter \/ ParseReturn \/ Serialize \/ CompareFiles

RenameInit == FilesInit(RenamePool, MaxPieces)
RenameNext == ProcessNext \/ ReadRespelled
SpecRename == RenameInit /\ [][RenameNext]_vars

TriviaInit == FilesInit(TriviaPool, MaxChars)
TriviaNext == ProcessNext \/ ReadWithTrivia
SpecTrivia == TriviaInit /\ [][TriviaNext]_vars

(***************************************************************************)
(* The three stages called one after the other on one text:                *)
(* tokenize_code, ast_parse_tokens, ast_serialize_preorder                 *)
(***************************************************************************)
\* blanks and comments, one of them left open at the end of the text
BlankPool ==
    { <<" ">>, <<"\n">>, <<"/", "*", "c", "*", "/">>, <<"/", "/", "c", "\n">>,
      <<"/", "/", "c">> }

Texts(pool, n) == {Flatten(ps) : ps \in SeqsUpTo(pool, n)}

StagePool == BlankPool \cup { <<"x">>, <<";">>, <<"i", "f", "(", "x", ")">> }

\* the text `switch(x){case 1:x;case 2:y;}`
SwitchExample ==
    << "s", "w", "i", "t", "c", "h", "(", "x", ")", "{", "c", "a", "s", "e", " ", "1",
       ":", "x", ";", "c", "a", "s", "e", " ", "2", ":", "y", ";", "}" >>

StagesInit ==
    /\ pc = "stage_tokenize"
    /\ src \in {[f \in 1..2 |-> IF f = 1 THEN s ELSE <<>>] :
                    s \in Texts(StagePool, MaxPieces) \cup {SwitchExample}}
    /\ file = 1
    /\ tokens = [f \in 1..2 |-> <<>>]
    /\ stops = [f \in 1..2 |-> <<>>]
    /\ success = [f \in 1..2 |-> FALSE]
    /\ edit = [kind |-> "none", at |-> 0, piece |-> <<>>]
    /\ toks = <<>> /\ pos = 0 /\ root = NullNode /\ heap = EmptyHeap
    /\ failAt = 0 /\ iters = 0
    /\ vec = [k \in 1..3 |-> StrVec(<<>>)]
    /\ calls = <<>>
    /\ NoLexer /\ NoRet

\* main.c:112-140 and ast_parser.c:505: the array handed to ast_parse_tokens is
\* what tokenize_code returned, with or without an end-of-input token after it
TokenizeSource ==
    /\ pc = "stage_tokenize"
    /\ LET r == tokenize_code(src[1])
       IN  /\ tokens' = [tokens EXCEPT ![1] = r.tokens]
           /\ stops' = [stops EXCEPT ![1] = r.stops]
           /\ \E with_eof \in BOOLEAN :
                 toks' = IF with_eof THEN Append(r.tokens, EofTok) ELSE r.tokens
    /\ pc' = "parse_start"
    /\ UNCHANGED <<pos, root, heap, failAt, iters, vec, calls, src, file, success, edit, lexVars, callVars>>

\* ast_serial.c:121-124 on an empty StrVec; the tree is left as it is
SerializePreorder ==
    /\ pc = "parse_done"
    /\ LET r == ast_serialize_preorder(root, <<>>, heap)
       IN  /\ success' = [success EXCEPT ![1] = r.ok]
           /\ vec' = [vec EXCEPT ![1] = StrVec(r.out)]
           /\ heap' = r.h
    /\ pc' = "serialized"
    /\ UNCHANGED <<toks, pos, root, failAt, iters, calls, src, file, tokens, stops, edit, lexVars, callVars>>

StagesNext == TokenizeSource \/ ParseBegin \/ ParseIter \/ ParseReturn \/ SerializePreorder
SpecStages == StagesInit /\ [][StagesNext]_vars

(***************************************************************************)
(* ast_serialize_preorder on a tree built with ast_new and ast_add_child    *)
(***************************************************************************)
MaxNodes == 3               \* how many nodes a tree handed to the linearizer has

\* (kind, text) of the nodes: token nodes without a label, with an empty one,
\* with a plain one and with labels that read like markers; a Block with the
\* label the parser gives an else branch
NodePool ==
    { <<"AST_TOKEN", NullStr>>, <<"AST_TOKEN", "">>, <<"AST_TOKEN", "x">>,
      <<"AST_TOKEN", "<TOKEN>">>, <<"AST_TOKEN", "</TOKEN>">>, <<"AST_BLOCK", "ELSE">> }

\* what ast_new and then ast_add_child for each child leave
MkNode(kind, text, children) ==
    [kind |-> kind, text |-> text, children |-> children,
     child_cap |-> IF children = <<>> THEN 0 ELSE 4]

RECURSIVE TreesOf(_), ForestsOf(_)
\* the sequences of trees with m nodes in all
ForestsOf(m) ==
    IF m = 0 THEN {<<>>}
    ELSE UNION {{<<t>> \o f : t \in TreesOf(k), f \in ForestsOf(m - k)} : k \in 1..m}
\* the trees with n nodes
TreesOf(n) == {MkNode(v[1], v[2], f) : v \in NodePool, f \in ForestsOf(n - 1)}

SerialInit ==
    /\ pc = "parse_done"
    /\ root \in UNION {TreesOf(n) : n \in 1..MaxNodes}
    /\ toks = <<>> /\ pos = 0 /\ heap = EmptyHeap
    /\ failAt = 0 /\ iters = 0
    /\ vec = [k \in 1..3 |-> StrVec(<<>>)]
    /\ calls = <<>>
    /\ NoFiles /\ NoLexer /\ NoRet

SerialNext == SerializePreorder
SpecSerial == SerialInit /\ [][SerialNext]_vars

(***************************************************************************)
(* One function of src/src/ast_parser.c called on a token array             *)
(***************************************************************************)
MaxSubToks == 4             \* longest token array drawn for one sub-parser

SubPool ==
    { Punct("("), Punct(")"), Punct("{"), Punct("}"), Punct(";"), Punct("["), Punct("]"),
      Ident(0, "x"), Kw("KW_IF", "if"), Kw("KW_ELSE", "else") }

\* the tokens of `( ( a ) > b )`
NestedParens ==
    << Punct("("), Punct("("), Ident(0, "a"), Punct(")"), Oper(">"), Ident(1, "b"), Punct(")") >>

\* the tokens of `if ( x ) if ( x ) x ; else x ;` and of the same followed
\* by a second `else x ;`
DanglingElse ==
    << Kw("KW_IF", "if"), Punct("("), Ident(0, "x"), Punct(")"),
       Kw("KW_IF", "if"), Punct("("), Ident(0, "x"), Punct(")"), Ident(0, "x"), Punct(";"),
       Kw("KW_ELSE", "else"), Ident(0, "x"), Punct(";") >>
TwoElses == DanglingElse \o << Kw("KW_ELSE", "else"), Ident(0, "x"), Punct(";") >>

\* one token of every kind, with the normalized text the tokenizer stores, with
\* another one, and with none
LabelToks ==
    {Kw(keyword_table[k][2], keyword_table[k][1]) : k \in 1..Len(keyword_table)}
        \cup { Kw("KW_UNKNOWN", "goto"), Ident(3, "y"),
               Tok("TK_IDENT", "KW_UNKNOWN", NullStr, "y"),
               Tok("TK_NUMBER", "KW_UNKNOWN", "NUM", "1"),
               Tok("TK_NUMBER", "KW_UNKNOWN", "1", "1"),
               Tok("TK_STRING", "KW_UNKNOWN", "STR", "\"s\""),
               Tok("TK_CHAR", "KW_UNKNOWN", "CHAR", "'c'"),
               Oper("+"), Oper("=="), Punct(","),
               Tok("TK_OPERATOR", "KW_UNKNOWN", NullStr, "+"),
               Tok("TK_UNKNOWN", "KW_UNKNOWN", "?", "?"),
               EofTok }

SubInit ==
    /\ pc = "sub_call"
    /\ toks \in SeqsUpTo(SubPool, MaxSubToks)
                    \cup {NestedParens, DanglingElse, TwoElses}
                    \cup {<<t>> : t \in LabelToks}
    /\ pos = 0 /\ root = NullNode /\ heap = EmptyHeap
    /\ failAt = 0 /\ iters = 0
    /\ vec = [k \in 1..3 |-> StrVec(<<>>)]
    /\ calls = <<>>
    /\ NoFiles /\ NoLexer /\ NoRet

\* the sub-parser fn is called at pos and hands back r
Returned(fn, r) ==
    /\ pc = "sub_call"
    /\ pc' = "sub_done"
    /\ ret' = [fn |-> fn, at |-> pos, node |-> r.node, pos |-> r.pos, yes |-> ~IsNull(r.node)]
    /\ pos' = r.pos
    /\ heap' = r.h
    /\ UNCHANGED <<toks, root, failAt, iters, vec, calls, fileVars, lexVars>>

\* ast_parser.c:208: cond = parse_paren_expr(p);
CallParenExpr == Returned("parse_paren_expr", parse_paren_expr(pos, heap))

\* ast_parser.c:431 and 361: parse_until_semicolon(p, AST_STMT / AST_EXPR)
CallUntilSemicolon ==
    \E kind \in {"AST_STMT", "AST_EXPR"} :
        Returned("parse_until_semicolon", parse_until_semicolon(pos, kind, heap))

\* ast_parser.c:420: if (is_kw(t, KW_IF)) return parse_if(p);
CallIf ==
    /\ is_kw(cur(pos), "KW_IF")
    /\ Returned("parse_if", parse_if(pos, heap))

\* ast_parser.c:143: lf = leaf_from_token(t), t the token at pos (NULL past the end)
CallLeafFromToken ==
    LET lf == leaf_from_token(cur(pos), heap)
    IN  Returned("leaf_from_token", Res(lf.node, pos, lf.h))

\* ast_parser.c:516: if (looks_like_function(&p))
CallLooksLikeFunction ==
    /\ pc = "sub_call"
    /\ pc' = "sub_done"
    /\ ret' = [fn |-> "looks_like_function", at |-> pos, node |-> NullNode, pos |-> pos,
               yes |-> looks_like_function(pos)]
    /\ UNCHANGED <<toks, pos, root, heap, failAt, iters, vec, calls, fileVars, lexVars>>

SubNext ==
    CallParenExpr \/ CallUntilSemicolon \/ CallIf \/ CallLeafFromToken \/ CallLooksLikeFunction
SpecSub == SubInit /\ [][SubNext]_vars

(***************************************************************************)
(* A caller pulling tokens from a Tokenizer (src/tests/test_tokenizer.c)   *)
(***************************************************************************)
MaxLexPieces == 2           \* how many pieces a source text to tokenize is made of
MaxEofPulls == 2            \* how many end-of-input tokens are pulled from a source

\* `int a=1;`, words, literals, an operator, a separator, a blank, a byte no
\* token starts with, and two characters between single quotes
LexPool ==
    { <<"i", "n", "t", " ", "a", "=", "1", ";">>, <<"i", "f">>, <<"x">>, <<"1">>, <<" ">>,
      <<"'", "c", "'">>, <<"\"", "s", "\"">>, <<"@">>, <<"=">>, <<";">>,
      <<"'", "a", "b", "'">> }

\* the texts a Tokenizer that was used before is initialised with
ReuseTexts == { <<"1", " ", "y">>, <<"i", "f">> }

\* a word, a blank, a byte no token starts with, and what opens a string
\* literal or a comment that may never be closed
PullPool == { <<"x">>, <<" ">>, <<"@">>, <<"\"">>, <<"/">>, <<"*">> }

\* an entry of lexlog: the call, the token returned, and the cursor before
\* and after the call as offsets into source
LexEntry(op, tok, from, to, source) ==
    [op |-> op, tok |-> tok, from |-> from, to |-> to, source |-> source]

Inits == {k \in 1..Len(lexlog) : lexlog[k].op = "init"}
LastInit(k) == CHOOSE i \in Inits : i <= k /\ \A j \in Inits : j <= k => j <= i
EofsPulled ==
    Cardinality({k \in LastInit(Len(lexlog))..Len(lexlog) : lexlog[k].tok.type = "TOKEN_EOF"})

\* test_tokenizer.c:25-26: Tokenizer tk; tokenizer_init(&tk, source1);
LexInitFrom(texts) ==
    /\ pc = "lex"
    /\ \E s \in texts :
          /\ tkz = tokenizer_init(s)
          /\ lexlog = <<LexEntry("init", NullTok, 0, 0, s)>>
    /\ toks = <<>> /\ pos = 0 /\ root = NullNode /\ heap = EmptyHeap
    /\ failAt = 0 /\ iters = 0
    /\ vec = [k \in 1..3 |-> StrVec(<<>>)]
    /\ calls = <<>>
    /\ NoFiles /\ NoRet

\* test_tokenizer.c:28: the loop condition
IsEof ==
    /\ pc \in {"lex", "lex_again"}
    /\ tkz' = tokenizer_is_eof(tkz).tk
    /\ UNCHANGED <<pc, parseVars, cmpVars, fileVars, lexlog, callVars>>

\* test_tokenizer.c:29: Token *token = tokenizer_next_token(&tk);
NextToken ==
    /\ pc \in {"lex", "lex_again"}
    /\ EofsPulled < MaxEofPulls
    /\ LET r == tokenizer_next_token(tkz)
       IN  /\ tkz' = r.tk
           /\ lexlog' = Append(lexlog, LexEntry("next", r.tok, tkz.current, r.tk.current,
                                                tkz.source))
    /\ UNCHANGED <<pc, parseVars, cmpVars, fileVars, callVars>>

\* test_tokenizer.c:60: once the first text is used up, the same object is
\* initialised with the second
Reinit ==
    /\ pc = "lex"
    /\ lexlog[Len(lexlog)].tok.type = "TOKEN_EOF"
    /\ \E s \in ReuseTexts :
          /\ tkz' = tokenizer_init(s)
          /\ lexlog' = Append(lexlog, LexEntry("init", NullTok, 0, 0, s))
    /\ pc' = "lex_again"
    /\ UNCHANGED <<parseVars, cmpVars, fileVars, callVars>>

LexInit == LexInitFrom(Texts(LexPool, MaxLexPieces))
LexNext == IsEof \/ NextToken \/ Reinit
SpecLex == LexInit /\ [][LexNext]_vars

\* one text pulled to its end: the loop of the caller goes on until it is
\* handed end-of-input (test_tokenizer.c:28-43)
PullInit == LexInitFrom(Texts(PullPool, MaxLexPieces))
PullNext == IsEof \/ NextToken
SpecPull == PullInit /\ [][PullNext]_vars /\ WF_vars(NextToken)

(***************************************************************************)
(* Properties of the tokenizer                                             *)
(***************************************************************************)
Pulls == {k \in 1..Len(lexlog) : lexlog[k].op = "next"}

\* the characters of the token returned by call k, and the one after them
TokChars(k) ==
    SubSeq(lexlog[k].source, lexlog[k].to - Len(lexlog[k].tok.raw) + 1, lexlog[k].to)
CharAfter(k) ==
    IF lexlog[k].to < Len(lexlog[k].source) THEN lexlog[k].source[lexlog[k].to + 1] ELSE NUL

WordStart == Lower \cup Upper \cup {"_"}
WordChars == WordStart \cup Digits

\* identifier tokens returned since the last tokenizer_init and before call k
IdentsBefore(k) ==
    Cardinality({j \in LastInit(k)..(k - 1) : lexlog[j].tok.type = "TK_IDENT"})

\* C11: the k-th (0-based) identifier token returned since tokenizer_init has
\* normalized text var_k: the counter starts at 0, goes up by one per
\* identifier, is left alone by every other token, and is 0 again after
\* tokenizer_init on a Tokenizer that was used before.
C11_IdentCounter ==
    /\ \A k \in Pulls :
          lexlog[k].tok.type = "TK_IDENT"
              => lexlog[k].tok.lex = "var_" \o ToString(IdentsBefore(k))
    /\ Len(lexlog) > 0 => tkz.ident_counter = IdentsBefore(Len(lexlog) + 1)

C11_Witness ==
    /\ pc = "lex_again"
    /\ \E k \in Pulls : k < LastInit(Len(lexlog)) /\ lexlog[k].tok.lex = "var_1"
    /\ \E k \in Pulls : k < LastInit(Len(lexlog)) /\ lexlog[k].tok.type = "TK_KEYWORD"
    /\ \E k \in Pulls : /\ k > LastInit(Len(lexlog))
                        /\ lexlog[k - 1].tok.type = "TK_NUMBER"
                        /\ lexlog[k].tok.lex = "var_0" /\ lexlog[k].tok.raw = "y"

\* the 18 keywords with their keyword-kind tags
KeywordKinds ==
    { <<"if", "KW_IF">>, <<"else", "KW_ELSE">>, <<"for", "KW_FOR">>,
      <<"while", "KW_WHILE">>, <<"do", "KW_DO">>, <<"switch", "KW_SWITCH">>,
      <<"case", "KW_CASE">>, <<"default", "KW_DEFAULT">>, <<"return", "KW_RETURN">>,
      <<"break", "KW_BREAK">>, <<"continue", "KW_CONTINUE">>, <<"int", "KW_INT">>,
      <<"char", "KW_CHAR">>, <<"float", "KW_FLOAT">>, <<"double", "KW_DOUBLE">>,
      <<"void", "KW_VOID">>, <<"struct", "KW_STRUCT">>, <<"typedef", "KW_TYPEDEF">> }
KeywordSpellings == {kk[1] : kk \in KeywordKinds}

\* what the first pulls from `int a=1;` return: (kind, keyword kind, raw, normalized)
IntA1 ==
    << <<"TK_KEYWORD", "KW_INT", "int", "int">>, <<"TK_IDENT", "KW_UNKNOWN", "a", "var_0">>,
       <<"TK_OPERATOR", "KW_UNKNOWN", "=", "=">>, <<"TK_NUMBER", "KW_UNKNOWN", "1", "NUM">>,
       <<"TK_PUNCTUATION", "KW_UNKNOWN", ";", ";">>, <<"TOKEN_EOF", "KW_UNKNOWN", "", "">> >>

Quad(t) == <<t.type, t.kw, t.raw, t.lex>>

IsIntA1(source) == source = <<"i", "n", "t", " ", "a", "=", "1", ";">>

\* C12: a maximal word is a keyword token, tagged with its keyword kind and
\* normalized to its spelling, exactly when it is one of the 18 keywords; every
\* other token has keyword kind KW_UNKNOWN; numbers are normalized to NUM,
\* strings to STR, operators and punctuation to their spelling; `int a=1;`
\* gives keyword int, identifier var_0, operator =, number NUM, punctuation ;
\* and end-of-input.
C12_Classification ==
    /\ \A k \in Pulls :
          LET t == lexlog[k].tok
              w == TokChars(k)
          IN  /\ (w # <<>> /\ w[1] \in WordStart) <=> t.type \in {"TK_IDENT", "TK_KEYWORD"}
              /\ t.type \in {"TK_IDENT", "TK_KEYWORD"}
                    => /\ \A i \in 1..Len(w) : w[i] \in WordChars
                       /\ CharAfter(k) \notin WordChars
                       /\ t.type = "TK_KEYWORD" <=> t.raw \in KeywordSpellings
              /\ t.type = "TK_KEYWORD" => <<t.raw, t.kw>> \in KeywordKinds /\ t.lex = t.raw
              /\ t.type # "TK_KEYWORD" => t.kw = "KW_UNKNOWN"
              /\ t.type = "TK_NUMBER" => t.lex = "NUM"
              /\ t.type = "TK_STRING" => t.lex = "STR"
              /\ t.type \in {"TK_OPERATOR", "TK_PUNCTUATION"} => t.lex = t.raw
    /\ (Len(lexlog) >= 2 /\ IsIntA1(lexlog[1].source))
          => \A k \in 2..Len(lexlog) : k <= 7 => Quad(lexlog[k].tok) = IntA1[k - 1]

C12_Witness ==
    /\ Len(lexlog) >= 7 /\ IsIntA1(lexlog[1].source)
    /\ \A k \in 2..7 : lexlog[k].op = "next"

\* C13: every character-literal token has normalized text CHR.
C13_CharIsCHR ==
    \A k \in Pulls : lexlog[k].tok.type = "TK_CHAR" => lexlog[k].tok.lex = "CHR"

RECURSIVE QuotedEnd(_, _, _)
\* where a literal opened by the quote q ends, scanning s from offset i (1-based)
\* on: at the next q that no backslash escapes, at the end of s if there is none
QuotedEnd(s, i, q) ==
    IF i > Len(s) THEN Len(s)
    ELSE IF s[i] = "\\" THEN QuotedEnd(s, i + 2, q)
    ELSE IF s[i] = q THEN i
    ELSE QuotedEnd(s, i + 1, q)

\* C27: a character token starts at a single quote and ends at the next single
\* quote that no backslash escapes, as a string does at its double quote; when no
\* closing quote exists it runs to the end of the input.
C27_CharScan ==
    \A k \in Pulls :
        lexlog[k].tok.type = "TK_CHAR"
            => LET start == lexlog[k].to - Len(lexlog[k].tok.raw) + 1
               IN  /\ lexlog[k].source[start] = "'"
                   /\ lexlog[k].to = QuotedEnd(lexlog[k].source, start + 1, "'")

TokenKinds ==
    { "TK_KEYWORD", "TK_IDENT", "TK_NUMBER", "TK_STRING", "TK_CHAR", "TK_OPERATOR",
      "TK_PUNCTUATION", "TOKEN_EOF" }

\* the bytes a token may start with
TokenStart ==
    WordStart \cup Digits \cup {"\"", "'"}
        \cup {"+", "-", "*", "/", "%", "=", "!", "<", ">", "&", "|", "^", "~"}
        \cup {"(", ")", "{", "}", "[", "]", ";", ",", "."}

LastIsEof == lexlog[Len(lexlog)].tok.type = "TOKEN_EOF"

PullProtocol ==
    \A k \in Pulls :
        LET e == lexlog[k]
        IN  /\ e.tok.type \in TokenKinds
            /\ e.to <= Len(e.source)
            /\ e.tok.type # "TOKEN_EOF"
                  => /\ e.to > e.from
                     /\ TokChars(k) # <<>> /\ TokChars(k)[1] \in TokenStart
            /\ e.tok.type = "TOKEN_EOF" => e.to = Len(e.source)
            /\ (k > 1 /\ lexlog[k - 1].tok.type = "TOKEN_EOF")
                  => e.tok.type = "TOKEN_EOF" /\ e.to = e.from

\* C14: a call that returns a token other than end-of-input moves the cursor
\* forward, so the pulls from a finite text reach end-of-input; a byte no
\* token starts with is skipped and never returned; after end-of-input every
\* call returns end-of-input and leaves the cursor where it is; every call
\* returns a token of one of the kinds, never an error.
C14_PullProtocol == []PullProtocol /\ []<>LastIsEof

C14_Witness ==
    /\ Len(lexlog) = 4
    /\ lexlog[1].source = <<"x", "@">>
    /\ lexlog[2].tok.type = "TK_IDENT" /\ lexlog[2].from = 0 /\ lexlog[2].to = 1
    /\ lexlog[3].tok.type = "TOKEN_EOF" /\ lexlog[3].from = 1 /\ lexlog[3].to = 2
    /\ lexlog[4].tok.type = "TOKEN_EOF" /\ lexlog[4].from = 2 /\ lexlog[4].to = 2

(***************************************************************************)
(* Properties of the stages on an empty text                               *)
(***************************************************************************)
BlankSource == src[1] \in Texts(BlankPool, MaxPieces)

\* C16: an empty text, or one of blanks and comments only, gives zero tokens;
\* ast_parse_tokens on zero tokens, or on a lone end-of-input token, returns a
\* Program node without children; ast_serialize_preorder of that node into an
\* empty vector gives exactly <PROGRAM>, </PROGRAM>.
C16_EmptyInput ==
    (BlankSource /\ pc # "stage_tokenize")
        => /\ tokens[1] = <<>>
           /\ toks \in {<<>>, <<EofTok>>}
           /\ pc \in {"parse_done", "serialized"}
                 => root.kind = "AST_PROGRAM" /\ root.children = <<>>
           /\ pc = "serialized"
                 => success[1] /\ vec[1].data = <<"<PROGRAM>", "</PROGRAM>">>

C16_Witness ==
    /\ pc = "serialized"
    /\ src[1] = <<"/", "*", "c", "*", "/", "\n", "/", "/", "c">>
    /\ toks = <<EofTok>>
    /\ vec[1].data = <<"<PROGRAM>", "</PROGRAM>">>

(***************************************************************************)
(* Properties of the linearizer                                            *)
(***************************************************************************)
KindNames ==
    { "PROGRAM", "FUNCTION", "BLOCK", "IF", "FOR", "WHILE", "DO_WHILE", "SWITCH", "CASE",
      "DEFAULT", "RETURN", "BREAK", "CONTINUE", "STMT", "EXPR", "TOKEN", "UNKNOWN" }
OpenMarker(name) == "<" \o name \o ">"
CloseMarker(name) == "</" \o name \o ">"
Markers == {OpenMarker(k) : k \in KindNames} \cup {CloseMarker(k) : k \in KindNames}

Labelled(n) == n.kind = "AST_TOKEN" /\ n.text # NullStr /\ n.text # ""

RECURSIVE Format(_), FormatAll(_), LabelledCount(_), LabelledSum(_)
\* the flat sequence as the format is stated: open marker, the label of a
\* TokenLeaf that has a non-empty one, the children in order, close marker
Format(n) ==
    <<OpenMarker(ast_kind_name(n.kind))>>
        \o (IF Labelled(n) THEN <<n.text>> ELSE <<>>)
        \o FormatAll(n.children)
        \o <<CloseMarker(ast_kind_name(n.kind))>>
FormatAll(ns) == IF ns = <<>> THEN <<>> ELSE Format(Head(ns)) \o FormatAll(Tail(ns))

LabelledCount(n) == (IF Labelled(n) THEN 1 ELSE 0) + LabelledSum(n.children)
LabelledSum(ns) == IF ns = <<>> THEN 0 ELSE LabelledCount(Head(ns)) + LabelledSum(Tail(ns))

Serialized == pc = "serialized" /\ success[1]

RECURSIVE Shape(_), ShapeAll(_)
Shape(n) ==
    [kind |-> n.kind, label |-> IF n.kind = "AST_TOKEN" THEN n.text ELSE NullStr,
     children |-> ShapeAll(n.children)]
ShapeAll(ns) == IF ns = <<>> THEN <<>> ELSE <<Shape(Head(ns))>> \o ShapeAll(Tail(ns))

KindOfName(name) ==
    CHOOSE k \in { "AST_PROGRAM", "AST_FUNCTION", "AST_BLOCK", "AST_IF", "AST_FOR",
                   "AST_WHILE", "AST_DO_WHILE", "AST_SWITCH", "AST_CASE", "AST_DEFAULT",
                   "AST_RETURN", "AST_BREAK", "AST_CONTINUE", "AST_STMT", "AST_EXPR",
                   "AST_TOKEN", "AST_UNKNOWN" } : ast_kind_name(k) = name

\* reading a flat sequence back, every marker string taken as a marker:
\* Read(s, i) reads one node from s[i] on and tells where it ends
RECURSIVE Read(_, _), ReadKids(_, _, _, _)
ReadKids(s, i, name, kids) ==
    IF i > Len(s) THEN [ok |-> FALSE, kids |-> kids, next |-> i]
    ELSE IF s[i] = CloseMarker(name) THEN [ok |-> TRUE, kids |-> kids, next |-> i + 1]
    ELSE LET kid == Read(s, i)
         IN  IF ~kid.ok THEN [ok |-> FALSE, kids |-> kids, next |-> i]
             ELSE ReadKids(s, kid.next, name, Append(kids, kid.node))
Read(s, i) ==
    IF i > Len(s) \/ s[i] \notin {OpenMarker(k) : k \in KindNames}
    THEN [ok |-> FALSE, node |-> NullNode, next |-> i]
    ELSE LET name == CHOOSE k \in KindNames : OpenMarker(k) = s[i]
             has_label == name = "TOKEN" /\ i < Len(s) /\ s[i + 1] \notin Markers
             rest == ReadKids(s, IF has_label THEN i + 2 ELSE i + 1, name, <<>>)
         IN  [ok |-> rest.ok,
              node |-> [kind |-> KindOfName(name),
                        label |-> IF has_label THEN s[i + 1] ELSE NullStr,
                        children |-> rest.kids],
              next |-> rest.next]

\* the tree read back from the flat sequence of root; whole tells whether the
\* sequence was one well-nested tree
ReadBack ==
    LET r == Read(vec[1].data, 1)
    IN  [whole |-> r.ok /\ r.next = Len(vec[1].data) + 1, shape |-> r.node]

\* what ast_serialize_preorder gives for a tree of a given shape
RECURSIVE OfShape(_), OfShapeAll(_)
OfShape(sh) == MkNode(sh.kind, sh.label, OfShapeAll(sh.children))
OfShapeAll(shs) == IF shs = <<>> THEN <<>> ELSE <<OfShape(Head(shs))>> \o OfShapeAll(Tail(shs))

RECURSIVE MarkerLabels(_), MarkerLabelsIn(_)
\* some TokenLeaf of the tree has a label that is itself a marker string
MarkerLabels(n) == (n.kind = "AST_TOKEN" /\ n.text \in Markers) \/ MarkerLabelsIn(n.children)
MarkerLabelsIn(ns) == IF ns = <<>> THEN FALSE ELSE MarkerLabels(Head(ns)) \/ MarkerLabelsIn(Tail(ns))

NoAllocFailed == failAt = 0 \/ failAt > heap.n

\* C7: every iteration of the top-level loop of ast_parse_tokens moves the
\* parser position forward by at least one token.
C7_ForwardProgress == [][iters' = iters + 1 => pos' > pos]_vars

\* C8: when no allocation fails, ast_parse_tokens returns a non-null root of
\* kind Program whatever the tokens are, and every node it allocated is that
\* root or one of its descendants.
C8_ReturnsProgramRoot ==
    (pc = "parse_done" /\ NoAllocFailed)
        => /\ ~IsNull(root)
           /\ root.kind = "AST_PROGRAM"
           /\ heap.live = NodeCount(root)

C8_Witness ==
    /\ pc = "parse_done" /\ NoAllocFailed
    /\ Len(toks) = MaxToks /\ toks[1] = Punct(")") /\ toks[2] = Kw("KW_ELSE", "else")
    /\ toks[3] = Kw("KW_IF", "if")
    /\ NodeCount(root) >= 5

\* index of the first `{` at or after position p
FirstBrace(p) == CHOOSE b \in p..(Len(toks) - 1) :
                    /\ is_punc(toks[b + 1], "{")
                    /\ \A i \in p..(b - 1) : ~is_punc(toks[i + 1], "{")

\* fn is a Function node made of the tokens from p on: a header with one leaf
\* per token before the first `{`, then the Block parsed from that `{`
IsFunctionAt(fn, p, h) ==
    /\ fn.kind = "AST_FUNCTION"
    /\ Len(fn.children) = 2
    /\ fn.children[1].kind = "AST_STMT" /\ fn.children[1].text = "FUNC_HEADER"
    /\ Len(fn.children[1].children) = FirstBrace(p) - p
    /\ \A i \in 1..(FirstBrace(p) - p) :
          /\ fn.children[1].children[i].kind = "AST_TOKEN"
          /\ fn.children[1].children[i].text = token_label(toks[p + i])
          /\ fn.children[1].children[i].children = <<>>
    /\ fn.children[2].kind = "AST_BLOCK"
    /\ fn.children[2] = parse_block(FirstBrace(p), h).node

FunctionStep ==
    (pc = "parse_loop" /\ iters' = iters + 1 /\ looks_like_function(pos)
        /\ (failAt = 0 \/ failAt > heap'.n))
        => /\ Len(root'.children) = Len(root.children) + 1
           /\ IsFunctionAt(root'.children[Len(root'.children)], pos, heap)

FunctionExampleParsed ==
    (pc = "parse_done" /\ toks = FunctionExample /\ NoAllocFailed)
        => /\ Len(root.children) = 1
           /\ root.children[1].kind = "AST_FUNCTION"
           /\ Len(root.children[1].children) = 2
           /\ Len(root.children[1].children[1].children) = 6
           /\ root.children[1].children[2].kind = "AST_BLOCK"

\* C15: when looks_like_function holds at the current position and no
\* allocation fails, the node added to Program is a Function whose first child
\* is the header Statement with one token leaf per token before the first `{`,
\* in order, and whose second child is the Block parsed from that `{`;
\* `int f(int x) { return x; }` gives one Program child, a Function with
\* children [header, Block].
C15_FunctionDetection == [][FunctionStep]_vars /\ []FunctionExampleParsed

C15_Witness ==
    /\ pc = "parse_done" /\ toks = FunctionExample /\ NoAllocFailed
    /\ Len(root.children) = 1
    /\ root.children[1].kind = "AST_FUNCTION"
    /\ root.children[1].children[2].children[1].kind = "AST_RETURN"

\* the labels of the TokenLeaf children of a node, and of the tokens at the
\* 0-based positions from up to to - 1
ChildLabels(n) == [k \in 1..Len(n.children) |-> n.children[k].text]
OnlyLeaves(n) ==
    \A k \in 1..Len(n.children) :
        n.children[k].kind = "AST_TOKEN" /\ n.children[k].children = <<>>
LabelsOf(from, to) == [k \in 1..(to - from) |-> token_label(toks[from + k])]
Called(fn) == pc = "sub_done" /\ ret.fn = fn

RECURSIVE MatchingParen(_, _)
\* the 0-based position of the `)` that closes the `(` before position i, with
\* depth parentheses open at i and nested ones counted; Len(toks) if there is none
MatchingParen(i, depth) ==
    IF i >= Len(toks) THEN Len(toks)
    ELSE IF is_punc(toks[i + 1], "(") THEN MatchingParen(i + 1, depth + 1)
    ELSE IF is_punc(toks[i + 1], ")")
         THEN (IF depth = 1 THEN i ELSE MatchingParen(i + 1, depth - 1))
    ELSE MatchingParen(i + 1, depth)

\* C21: called at a `(`, parse_paren_expr consumes up to and including the `)`
\* that matches it, nested parentheses counted, makes a TokenLeaf of every token
\* in between, in order, and leaves the position right after that `)`.
C21_ParenExprMatching ==
    (Called("parse_paren_expr") /\ is_punc(cur(ret.at), "(")
        /\ MatchingParen(ret.at + 1, 1) < Len(toks))
        => LET close == MatchingParen(ret.at + 1, 1)
           IN  /\ ret.yes /\ ret.node.kind = "AST_EXPR"
               /\ ret.pos = close + 1
               /\ OnlyLeaves(ret.node)
               /\ ChildLabels(ret.node) = LabelsOf(ret.at + 1, close)

RECURSIVE FunctionAhead(_, _, _)
\* scanning from the 0-based position i with par parentheses open: no `;` at
\* depth 0 comes first, a balanced pair is completed (paired), and the next
\* token at depth 0 after the pair is `{`
FunctionAhead(i, par, paired) ==
    IF i >= Len(toks) \/ is_eof(toks[i + 1]) THEN FALSE
    ELSE IF is_punc(toks[i + 1], "(") THEN FunctionAhead(i + 1, par + 1, paired)
    ELSE IF is_punc(toks[i + 1], ")")
         THEN (IF par = 0 THEN FALSE
               ELSE FunctionAhead(i + 1, par - 1, paired \/ par = 1))
    ELSE IF par > 0 THEN FunctionAhead(i + 1, par, paired)
    ELSE IF is_punc(toks[i + 1], "{") THEN paired
    ELSE IF is_punc(toks[i + 1], ";") \/ paired THEN FALSE
    ELSE FunctionAhead(i + 1, par, paired)

\* C23: looks_like_function answers yes exactly when no `;` at depth 0 comes
\* first, a balanced `(...)` pair is completed and the very next token at depth
\* 0 after it is `{`; any other token between `)` and `{` makes the answer no.
C23_LooksLikeFunction ==
    Called("looks_like_function") => (ret.yes <=> FunctionAhead(ret.at, 0, FALSE))

\* the last child of an If node is the Block labelled ELSE
HasElse(n) ==
    /\ n.children # <<>>
    /\ n.children[Len(n.children)].kind = "AST_BLOCK"
    /\ n.children[Len(n.children)].text = "ELSE"

\* where the then-statement of the If node n parsed at position at ends: the
\* parenthesized expression, then one statement
AfterThen(at) == parse_statement(parse_paren_expr(at + 1, EmptyHeap).pos, EmptyHeap).pos

\* C24: parse_if at `if (` gives an If node whose children are the
\* parenthesized Expression, the then-statement and, exactly when the token after
\* the then-statement is `else`, a Block labelled ELSE around the else statement;
\* never more than three children; an else goes to the nearest if without one.
C24_IfStructure ==
    (Called("parse_if") /\ is_punc(peek(ret.at, 1), "("))
        => LET n == ret.node
               then_st == parse_statement(parse_paren_expr(ret.at + 1, EmptyHeap).pos, EmptyHeap)
               else_st == parse_statement(then_st.pos + 1, EmptyHeap)
               with_else == ~IsNull(then_st.node) /\ is_kw(cur(then_st.pos), "KW_ELSE")
           IN  /\ ret.yes /\ n.kind = "AST_IF"
               /\ Len(n.children) <= 3
               /\ n.children[1].kind = "AST_EXPR"
               /\ ~IsNull(then_st.node)
                     => Len(n.children) >= 2 /\ Shape(n.children[2]) = Shape(then_st.node)
               /\ IsNull(then_st.node) => Len(n.children) = 1
               /\ with_else <=> Len(n.children) = 3
               /\ with_else
                     => /\ HasElse(n)
                        /\ ShapeAll(n.children[3].children)
                              = IF IsNull(else_st.node) THEN <<>> ELSE <<Shape(else_st.node)>>
                        /\ ret.pos = else_st.pos
               /\ ~with_else => ret.pos = then_st.pos
               /\ (HasElse(n) /\ n.children[2].kind = "AST_IF") => HasElse(n.children[2])

C24_Witness ==
    /\ Called("parse_if") /\ toks = DanglingElse
    /\ Len(ret.node.children) = 2
    /\ ret.node.children[2].kind = "AST_IF" /\ Len(ret.node.children[2].children) = 3
    /\ HasElse(ret.node.children[2])
    /\ ret.pos = Len(toks)

RECURSIVE Unclosed(_, _, _, _)
\* how many of the tokens at the 0-based positions from up to to - 1 are an
\* open (a `(`, a `[`) that no later close (`)`, `]`) among them closes
Unclosed(from, to, open, close) ==
    IF to <= from THEN 0
    ELSE LET before == Unclosed(from, to - 1, open, close)
         IN  IF is_punc(toks[to], open) THEN before + 1
             ELSE IF is_punc(toks[to], close) /\ before > 0 THEN before - 1
             ELSE before

\* the token at the 0-based position i is a `;`, `{` or `}` outside every
\* unclosed `(...)` and `[...]` opened since from
EndsStatement(from, i) ==
    /\ is_punc(toks[i + 1], ";") \/ is_punc(toks[i + 1], "{") \/ is_punc(toks[i + 1], "}")
    /\ Unclosed(from, i, "(", ")") = 0
    /\ Unclosed(from, i, "[", "]") = 0

\* the first position from from on that ends the statement or holds the
\* end-of-input token, Len(toks) if none
StatementEnd(from) ==
    LET ends == {i \in from..(Len(toks) - 1) : is_eof(toks[i + 1]) \/ EndsStatement(from, i)}
    IN  IF ends = {} THEN Len(toks) ELSE CHOOSE i \in ends : \A j \in ends : i <= j

\* C25: parse_until_semicolon consumes up to and including the first `;` at
\* parenthesis and bracket depth 0, makes a TokenLeaf of every consumed token but
\* that `;`, in order, and stops without consuming at a `{` or `}` at depth 0; a
\* `;`, `{` or `}` inside an unclosed `(...)` or `[...]` does not end the statement.
C25_StatementBoundary ==
    Called("parse_until_semicolon")
        => LET end == StatementEnd(ret.at)
           IN  /\ ret.yes /\ ret.node.kind \in {"AST_STMT", "AST_EXPR"}
               /\ OnlyLeaves(ret.node)
               /\ ChildLabels(ret.node) = LabelsOf(ret.at, end)
               /\ ret.pos = IF end < Len(toks) /\ is_punc(toks[end + 1], ";")
                            THEN end + 1 ELSE end

C25_Witness ==
    /\ Called("parse_until_semicolon")
    /\ toks = << Punct("("), Punct(";"), Punct(")"), Punct(";") >>
    /\ ret.pos = 4 /\ ChildLabels(ret.node) = << "(", ";", ")" >>

\* the name of a keyword kind: the kind without its KW_ prefix
KeywordName(kw) ==
    CASE kw = "KW_IF" -> "IF" [] kw = "KW_ELSE" -> "ELSE" [] kw = "KW_FOR" -> "FOR"
      [] kw = "KW_WHILE" -> "WHILE" [] kw = "KW_DO" -> "DO" [] kw = "KW_SWITCH" -> "SWITCH"
      [] kw = "KW_CASE" -> "CASE" [] kw = "KW_DEFAULT" -> "DEFAULT"
      [] kw = "KW_RETURN" -> "RETURN" [] kw = "KW_BREAK" -> "BREAK"
      [] kw = "KW_CONTINUE" -> "CONTINUE" [] kw = "KW_INT" -> "INT" [] kw = "KW_CHAR" -> "CHAR"
      [] kw = "KW_FLOAT" -> "FLOAT" [] kw = "KW_DOUBLE" -> "DOUBLE" [] kw = "KW_VOID" -> "VOID"
      [] kw = "KW_STRUCT" -> "STRUCT" [] kw = "KW_TYPEDEF" -> "TYPEDEF"
      [] OTHER -> "KW"

\* C26: the label of a TokenLeaf depends on the token alone: a keyword gets its
\* keyword name, KW only when the keyword is not a recognized one; an identifier
\* its normalized text; a number, string or character NUM, STR, CHR whatever its
\* stored text; an operator or punctuation its spelling; anything else TOK, and a
\* null token NULL.
C26_LeafLabel ==
    (Called("leaf_from_token") /\ ~(cur(ret.at).type = "TK_IDENT" /\ cur(ret.at).lex = NullStr))
        => LET t == cur(ret.at)
           IN  /\ ret.yes /\ ret.node.kind = "AST_TOKEN" /\ ret.node.children = <<>>
               /\ ret.node.text =
                     CASE t.type = "NULL" -> "NULL"
                       [] t.type = "TK_KEYWORD" -> KeywordName(t.kw)
                       [] t.type = "TK_IDENT" -> t.lex
                       [] t.type = "TK_NUMBER" -> "NUM"
                       [] t.type = "TK_STRING" -> "STR"
                       [] t.type = "TK_CHAR" -> "CHR"
                       [] t.type \in {"TK_OPERATOR", "TK_PUNCTUATION"} /\ t.lex # NullStr -> t.lex
                       [] OTHER -> "TOK"

RECURSIVE Preorder(_), PreorderAll(_)
\* the nodes of a tree in preorder
Preorder(n) == IF IsNull(n) THEN <<>> ELSE <<n>> \o PreorderAll(n.children)
PreorderAll(ns) == IF ns = <<>> THEN <<>> ELSE Preorder(Head(ns)) \o PreorderAll(Tail(ns))

IsCase(n) == n.kind = "AST_CASE"
IsCaseToken(t) == t.type = "TK_KEYWORD" /\ t.kw = "KW_CASE"

\* C22: in the tree of a tokenized source every `case` has a Case node of its
\* own, whose Expression child holds only the tokens between that `case` and its
\* `:` and whose second child is the Block of the statements after the `:` up to
\* the next `case`, `default` or `}`.
C22_CasePerLabel ==
    pc \in {"parse_done", "serialized"}
        => LET cases == SelectSeq(Preorder(root), IsCase)
           IN  /\ Len(cases) = Len(SelectSeq(tokens[1], IsCaseToken))
               /\ \A k \in 1..Len(cases) :
                     /\ Len(cases[k].children) = 2
                     /\ cases[k].children[1].kind = "AST_EXPR"
                     /\ \A j \in 1..Len(cases[k].children[1].children) :
                           cases[k].children[1].children[j].text \notin {";", "CASE", "DEFAULT"}
                     /\ cases[k].children[2].kind = "AST_BLOCK"
                     /\ cases[k].children[2].text = "CASE BODY"
               /\ src[1] = SwitchExample
                     => /\ Len(cases) = 2
                        /\ \A k \in 1..2 :
                              /\ ChildLabels(cases[k].children[1]) = <<"NUM">>
                              /\ Len(cases[k].children[2].children) = 1

IsLeaf(n) == n.kind = "AST_TOKEN"
\* the labels of the TokenLeaf nodes of a tree, in preorder
LeafLabels(n) ==
    LET leaves == SelectSeq(Preorder(n), IsLeaf)
    IN  [k \in 1..Len(leaves) |-> leaves[k].text]

RECURSIVE IsSubsequence(_, _)
\* a is b with some elements left out, the others in the order of b
IsSubsequence(a, b) ==
    IF a = <<>> THEN TRUE
    ELSE IF b = <<>> THEN FALSE
    ELSE IF Head(a) = Head(b) THEN IsSubsequence(Tail(a), Tail(b))
    ELSE IsSubsequence(a, Tail(b))

LeavesFollowTokens == IsSubsequence(LeafLabels(root), LabelsOf(0, pos))

\* C28: during ast_parse_tokens the position never decreases and never exceeds
\* the token count, and the TokenLeaf labels of the tree in preorder are the
\* labels of the tokens passed so far with some left out: no token gives two
\* leaves and no two leaves change places.
C28_TokenConservation ==
    /\ [][pos' >= pos /\ pos' <= Len(toks')]_vars
    /\ [](pos <= Len(toks) /\ LeavesFollowTokens)

C28_Witness ==
    /\ pc = "parse_done" /\ toks = FunctionExample /\ pos = Len(toks)
    /\ LeafLabels(root) = <<"KW", "var_0", "(", "KW", "var_1", ")", "var_2">>

\* C30: ast_parse_tokens on a token array without end-of-input tokens and on
\* the same array followed by an end-of-input token return trees of the same
\* shape and labels, and stop at the same position, within the array.
C30_EofIndependence ==
    /\ pos <= Len(toks)
    /\ (pc = "parse_done" /\ ret.fn = "ast_parse_tokens")
          => /\ Shape(root) = Shape(ret.node)
             /\ root = ret.node
             /\ pos = ret.pos /\ pos = Len(toks) - 1

C30_Witness ==
    /\ pc = "parse_done" /\ ret.fn = "ast_parse_tokens"
    /\ toks = Append(FunctionExample, EofTok)
    /\ root = ret.node
    /\ Len(root.children) = 1 /\ root.children[1].kind = "AST_FUNCTION"

\* C19: when an allocation fails during ast_parse_tokens the call returns
\* null, and every node allocated during the call has been freed by then.
C19_AllocFailureReturnsNull ==
    (pc = "parse_done" /\ ~NoAllocFailed) => IsNull(root) /\ heap.live = 0

(***************************************************************************)
(* Properties of the pipeline tokenizer -> parser -> linearizer             *)
(***************************************************************************)
Spelled == {"TK_IDENT", "TK_NUMBER", "TK_STRING", "TK_CHAR"}

\* the two token arrays differ at most in the spelling of identifiers and in
\* the contents of literals
SameButSpelling ==
    /\ Len(tokens[1]) = Len(tokens[2])
    /\ \A k \in 1..Len(tokens[1]) :
          /\ tokens[1][k].type = tokens[2][k].type
          /\ tokens[1][k].kw = tokens[2][k].kw
          /\ tokens[1][k].type \notin Spelled => tokens[1][k].raw = tokens[2][k].raw

\* C9: two sources whose tokens differ only in the spelling of identifiers
\* and in the contents of number, string and character literals give the same
\* flat sequence, and compare_files reports distance 0 and similarity 1.
C9_RenameInvariant ==
    (pc = "done" /\ edit.kind = "respell" /\ SameButSpelling)
        => /\ vec[1] = vec[2]
           /\ success[1] = success[2]
           /\ success[1] => /\ Len(calls) = 1
                            /\ calls[1].dist = 0
                            /\ calls[1].sim.num = calls[1].sim.den

C9_Witness ==
    /\ pc = "done" /\ edit.kind = "respell" /\ SameButSpelling
    /\ success[1] /\ success[2]
    /\ Len(calls) = 1 /\ calls[1].mem
    /\ \E k \in 1..Len(tokens[1]) :
          tokens[1][k].type = "TK_IDENT" /\ tokens[2][k].raw = "zz"
    /\ \E k \in 1..Len(tokens[1]) : tokens[1][k].type = "TK_KEYWORD"
    /\ \E k \in 1..Len(tokens[1]) : tokens[1][k].type = "TK_NUMBER"

\* the (kind, normalized text) pairs of a file's tokens
TokenPairs(f) == [k \in 1..Len(tokens[f]) |-> <<tokens[f][k].type, tokens[f][k].lex>>]

Inserted == edit.kind = "insert" /\ file = 2 /\ pc # "tokenize"

\* the inserted piece is a comment and sits right after a `/` operator token
CommentAfterSlash ==
    /\ edit.piece[1] = "/"
    /\ \E k \in 1..Len(tokens[1]) :
          /\ stops[1][k] = edit.at
          /\ tokens[1][k].type = "TK_OPERATOR"
          /\ tokens[1][k].raw = "/"

\* C10 as stated: blanks, a line comment ended by a newline or a closed block
\* comment put at any boundary between two tokens leave the (kind, normalized
\* text) pairs, and so the flat sequence, unchanged.
C10_TriviaInvariant ==
    Inserted => /\ TokenPairs(1) = TokenPairs(2)
                /\ pc = "done" => vec[1] = vec[2]

\* C10 amended: the same, except for a comment put right after a `/` operator
\* token, where the `/` and the comment opener read as another comment.
C10_TriviaInvariantExceptAfterSlash ==
    (Inserted /\ ~CommentAfterSlash)
        => /\ TokenPairs(1) = TokenPairs(2)
           /\ pc = "done" => vec[1] = vec[2]

C10_Witness ==
    /\ pc = "done" /\ Inserted /\ ~CommentAfterSlash
    /\ edit.piece = <<"/", "*", "c", "*", "/">>
    /\ src[1][edit.at + 1] = "/"
    /\ Len(tokens[1]) >= 3
    /\ success[1] /\ success[2] /\ Len(calls) = 1 /\ calls[1].mem

(***************************************************************************)
(* Properties of the comparator                                            *)
(***************************************************************************)
Max2(a, b) == IF a > b THEN a ELSE b
Abs(a) == IF a < 0 THEN -a ELSE a

\* the Levenshtein distance by its definition: cheapest edit script
EditDistance(A, B) ==
    LET D[i \in 0..Len(A), j \in 0..Len(B)] ==
            IF i = 0 THEN j
            ELSE IF j = 0 THEN i
            ELSE LET c == IF A[i] = B[j] THEN 0 ELSE 1
                     x == D[i - 1, j] + 1
                     y == D[i, j - 1] + 1
                     z == D[i - 1, j - 1] + c
                     xy == IF x < y THEN x ELSE y
                 IN  IF xy < z THEN xy ELSE z
    IN  D[Len(A), Len(B)]

ArgA(k) == vec[calls[k].a].data
ArgB(k) == vec[calls[k].b].data
Done(a, b) == {k \in 1..Len(calls) : calls[k].a = a /\ calls[k].b = b /\ calls[k].mem}

\* C1: with its rows allocated, levenshtein_strvec(A,B) is the minimum number
\* of unit-cost insertions, deletions and substitutions turning A into B.
C1_ReturnsEditDistance ==
    \A k \in 1..Len(calls) :
        calls[k].mem => calls[k].dist = EditDistance(ArgA(k), ArgB(k))

\* C2: the distance lies in 0..max(len A, len B), so the similarity lies in
\* [0,1], and it is 1.0 when both sequences are empty.
C2_DistanceAndSimilarityBounded ==
    \A k \in 1..Len(calls) :
        LET mx == Max2(Len(ArgA(k)), Len(ArgB(k)))
        IN  /\ 0 <= calls[k].dist /\ calls[k].dist <= mx
            /\ calls[k].sim.den > 0
            /\ 0 <= calls[k].sim.num /\ calls[k].sim.num <= calls[k].sim.den
            /\ (mx = 0 => calls[k].sim.num = calls[k].sim.den)

C2_Witness ==
    \E k \in 1..Len(calls) :
        /\ calls[k].mem /\ Len(ArgA(k)) >= 2 /\ Len(ArgB(k)) >= 1
        /\ calls[k].dist = Max2(Len(ArgA(k)), Len(ArgB(k)))
        /\ calls[k].sim.num = 0

\* C3: distance(A,B) = distance(B,A), also for operands of equal length.
C3_Symmetric ==
    \A k \in Done(1, 2), l \in Done(2, 1) : calls[k].dist = calls[l].dist

\* C4: for a non-empty A, distance(A,A) = 0 and the similarity is exactly 1.0.
C4_Identity ==
    \A k \in 1..Len(calls) :
        (ArgA(k) = ArgB(k) /\ ArgA(k) # <<>>)
            => calls[k].dist = 0 /\ calls[k].sim.num = calls[k].sim.den

C4_Witness ==
    \E k \in 1..Len(calls) :
        /\ calls[k].mem /\ calls[k].a = calls[k].b /\ Len(ArgA(k)) >= 2
        /\ ArgA(k)[1] # ArgA(k)[2] /\ calls[k].dist = 0

\* C5: distance(A,C) <= distance(A,B) + distance(B,C).
C5_Triangle ==
    \A k \in Done(1, 2), l \in Done(2, 3), n \in Done(1, 3) :
        calls[n].dist <= calls[k].dist + calls[l].dist

\* C20: when levenshtein_strvec cannot allocate its two rows, what the caller
\* gets is not distance 0 and similarity 1 for two different non-empty
\* sequences.
C20_FailureDistinguishable ==
    \A k \in 1..Len(calls) :
        (~calls[k].mem /\ ArgA(k) # ArgB(k) /\ ArgA(k) # <<>> /\ ArgB(k) # <<>>)
            => ~(calls[k].dist = 0 /\ calls[k].sim.num = calls[k].sim.den)

\* C29: with its rows allocated, levenshtein_strvec(A,B) is 0 exactly when A and
\* B have the same length and equal strings at every index, and it is never
\* smaller than the difference of the lengths; so the similarity is 1.0 only for
\* identical sequences.
C29_ZeroMeansEqual ==
    \A k \in 1..Len(calls) :
        calls[k].mem
            => /\ calls[k].dist = 0 <=> ArgA(k) = ArgB(k)
               /\ calls[k].dist >= Abs(Len(ArgA(k)) - Len(ArgB(k)))
               /\ calls[k].sim.num = calls[k].sim.den => ArgA(k) = ArgB(k)

C29_Witness ==
    \E k \in 1..Len(calls) :
        /\ calls[k].mem /\ Len(ArgA(k)) = MaxVecLen /\ Len(ArgB(k)) = MaxVecLen
        /\ ArgA(k) # ArgB(k) /\ ArgA(k)[1] = ArgB(k)[1] /\ ArgA(k)[2] = ArgB(k)[2]
        /\ calls[k].dist = 1

\* C6: against an empty sequence the distance is the other length, in either
\* argument order, and two empty sequences have similarity 1.0.
C6_EmptySequenceLaw ==
    \A k \in 1..Len(calls) :
        /\ ArgA(k) = <<>> => calls[k].dist = Len(ArgB(k))
        /\ ArgB(k) = <<>> => calls[k].dist = Len(ArgA(k))
        /\ (ArgA(k) = <<>> /\ ArgB(k) = <<>>) => calls[k].sim.num = calls[k].sim.den

C6_Witness ==
    /\ vec[1].data = <<>> /\ Len(vec[2].data) >= 2
    /\ \E k \in 1..Len(calls) : calls[k].a = 1 /\ calls[k].b = 2 /\ calls[k].dist = Len(vec[2].data)
    /\ \E k \in 1..Len(calls) : calls[k].a = 2 /\ calls[k].b = 1 /\ calls[k].dist = Len(vec[2].data)
    /\ \E k \in 1..Len(calls) : calls[k].a = 1 /\ calls[k].b = 1 /\ calls[k].sim.num = calls[k].sim.den

====
